---- MODULE Spec2Model ----
(***************************************************************************)
(* Verification model of the DS-OCR server's scheduling core:              *)
(*   - JobQueue      (app/services/queue.py, app/domain/job.py)            *)
(*   - ModelManager  (app/services/model_manager.py)                       *)
(*   - TokenManager  (app/security/tokens.py)                              *)
(*   - write_json    (app/storage/local.py)                                *)
(*   - DocumentPipeline batching and limit checks                          *)
(*     (app/services/pipeline.py, app/services/dsocr_model.py)             *)
(*   - RateLimiter   (app/security/rate_limit.py)                          *)
(*   - validate_path_in_storage (app/utils/security.py)                    *)
(*   - download_by_token (app/api/v1/publish.py)                           *)
(*   - delete_task   (app/api/v1/tasks.py)                                 *)
(* Each component has its own specification over its own variables; the    *)
(* variables of the other components stay at their initial values.         *)
(***************************************************************************)
EXTENDS Integers, Sequences, FiniteSets, TLC

(***************************************************************************)
(* Bounds of the model.                                                    *)
(***************************************************************************)
MaxJobs == 2
MaxQueueSize == 2
MaxWorkers == 2
MaxTime == 2
MaxLiveTime == 3
NumCallers == 2
MaxLoads == 2
Timeout == 1
IdleUnloadSeconds == 1
MaxTokens == 2
MaxTtl == 1
MaxDownloads == 2
MaxConsumes == 3
NumConsumers == 2
MaxRestarts == 1
MaxFree == 17
MaxReserve == 2
MaxPerJob == 8
MaxWorkerCap == 3
NumChunks == 2
MaxCrashes == 2
MaxPages == 7
MaxBatchPageSize == 4
MaxSizeMb == 2
NumKeys == 1
MaxBurst == 7
MaxTtlSeconds == 90
MaxAdvances == 3
MaxPathLen == 3

(***************************************************************************)
(* Values.                                                                 *)
(***************************************************************************)
\* Python's None for an optional timestamp (Job.started_at / finished_at).
NoTime == -1
\* Python's None for an optional string (Job.message) and for "no exception".
NoText == "None"
\* The None sentinel that stop() pushes on the queue; job ids are 1..MaxJobs.
Sentinel == 0

JobIds == 1..MaxJobs
\* Texts of the exceptions Pipeline.run may raise.
Errors == {"err_a", "err_b"}

\* Threads that enter ModelManager.inference_context (workers running the
\* pipeline and synchronous /layout-parsing requests).
Callers == 1..NumCallers
\* Token strings (secrets.token_urlsafe) and the threads calling consume().
Tokens == 1..MaxTokens
Consumers == 1..NumConsumers
\* What consume() returns: None, or a token with some remaining uses.
NoResult == << >>
Returned(remain) == <<remain>>
\* get_gpu_memory_gb() returned None.
NoMem == -1
\* 1024 * 1024 bytes.
Mebibyte == 1048576

\* Rate limiter keys (client addresses).
Keys == 1..NumKeys
\* No allow() call has been made for a key.
\* No allow() call is under way; the cleanup thread sleeps.
NoCall == [pc |-> "idle", key |-> 0, now |-> 0]

NoStreak == [at |-> -1, kind |-> "none", waited |-> 0, ok |-> 0,
             failed |-> FALSE, late |-> FALSE]

\* validate_path_in_storage has not returned or raised yet.
NotCalled == [status |-> 0, path |-> << >>]

Max(a, b) == IF a >= b THEN a ELSE b
Min(a, b) == IF a <= b THEN a ELSE b

VARIABLES
  \* ---- clock ----
  now,              \* time.time()
  \* ---- JobQueue ----
  max_queue_size,   \* settings.max_queue_size
  max_workers,      \* settings.max_workers
  auto_publish,     \* settings.auto_publish
  q,                \* JobQueue._q contents, head first
  unfinished,       \* JobQueue._q.unfinished_tasks
  jobs,             \* JobQueue._jobs : task_id -> Job
  statusFile,       \* job_status.json per job root : task_id -> dict
  started,          \* start() has spawned the worker threads
  stop_set,         \* JobQueue._stop
  stop_pc,          \* position of the thread calling stop()
  stop_puts,        \* sentinels stop() has pushed so far
  wpc,              \* position of each worker thread in _worker
  wjob,             \* the job a worker holds (local variable job)
  wexc,             \* the exception a worker caught (local variable e)
  accepted,         \* history: jobs for which submit() returned True, in order
  dequeued,         \* history: jobs removed from the queue by workers, in order
  run_outcome,      \* history: how Pipeline.run ended for each job
  rejected,         \* history: jobs for which submit() returned False
  spc,              \* position of the submit() call made with each job
  publish_outcome,  \* history: how the auto publish of each job ended
  \* ---- ModelManager ----
  backend_setting,  \* settings.backend, lower-cased
  dynamic_workers,  \* settings.dynamic_workers
  use_gpu,          \* torch.cuda.is_available() and not settings.force_cpu
  inference_lock,   \* ModelManager._inference_lock is held
  state_lock,       \* holder of ModelManager._lock (0: free)
  model,            \* ModelManager._model (0: None, k: the k-th engine built)
  loads,            \* engines constructed so far
  busy_gpu_tasks,   \* ModelManager._busy_gpu_tasks
  last_used_ts,     \* ModelManager._last_used_ts
  runtime_device,   \* ModelManager.runtime_device
  backend,          \* ModelManager.backend
  fallback_reason,  \* ModelManager.fallback_reason
  cpc,              \* position of each caller in inference_context
  c_start_ts,       \* local start_ts
  c_inference_acquired, \* local inference_acquired
  c_gpu_slot_acquired,  \* local gpu_slot_acquired
  c_model,          \* the engine get_model() returned to the caller
  c_exc,            \* the exception leaving the context ("None": none)
  c_allowed,        \* per caller: the local `allowed` of the poll that admitted it
  keep_history,     \* history: whether the three history variables below are recorded
  last_acquire_ts,  \* history: when get_model() last returned an engine
  last_release_ts,  \* history: when a slot was last released or a gpu_slot block left
  c_entered_after,  \* history: the engine last unloaded before the caller entered
  \* ---- TokenManager ----
  t_data,           \* TokenManager._data
  t_file,           \* the token store file: << >> when absent, else <<f>> with
                    \* f.text what reached it and f.complete whether all did
  t_lock,           \* holder of TokenManager._lock (0: free)
  tpc,              \* position of each thread inside consume()
  t_arg,            \* the token string passed to consume()
  t_local,          \* local t = Token(**raw)
  t_issued,         \* history: max_downloads and expire_at of each created token
  t_results,        \* history: per token, the results of the consume() calls
  t_ttl,            \* history: expire_seconds and creation time of each token
  t_restarts,       \* history: how often the TokenManager was constructed anew
  \* ---- one call of ModelManager._allowed_gpu_concurrency ----
  g_args,           \* the settings and readings the call sees
  g_allowed,        \* the value it returned (0: not called yet)
  \* ---- write_json on one job's status file ----
  f_target,         \* job_status.json: << >> when absent, else <<content>>
  f_tmp,            \* the temporary file written last, likewise; it is in
                    \* the job root under job_status.json.tmp when f_named
  f_named,          \* the name job_status.json.tmp exists in the job root
  f_pc,             \* position of the writer inside write_json
  f_data,           \* the argument data: << >> outside a call, else <<data>>
  f_persisted,      \* history: the objects persisted in full so far
  f_crashes,        \* history: how often the process was killed
  f_dir,            \* the job root directory exists
  f_rm,             \* delete_task inside shutil.rmtree: << >> outside, else
                    \* <<names>> with the listed names it has yet to unlink
  \* ---- DocumentPipeline.run on one PDF ----
  b_total,          \* pages_count: what get_pdf_page_count (pypdf) returns
  b_fitz,           \* doc.page_count (PyMuPDF) inside predict
  b_size,           \* settings.batch_page_size
  b_auto,           \* settings.enable_auto_batch
  b_pc,             \* position inside run / _run_batched / _run_single
  b_start,          \* loop variable start_page
  b_ranges,         \* history: the page_range strings passed to predict
  b_out,            \* all_outputs / outputs: page_index of each result
  b_known,          \* pages_count is not None
  b_range,          \* the caller's page_ranges: << >> is None, <<s>> the string s
  b_acq,            \* history: how often an inference_context was requested
  b_held,           \* the run is inside a with inference_context block
  b_md,             \* job_paths.md_file: << >> is absent, <<t>> the texts t
  \* ---- the limit checks of DocumentPipeline.run on one input ----
  v_in,             \* the arguments, the settings and the input file
  v_pc,             \* position inside run
  v_error,          \* the exception that left run ("None": none)
  v_entered,        \* _run_single / _run_batched has called inference_context
  v_start,          \* loop variable start_page of _run_batched
  \* ---- RateLimiter ----
  r_cfg,            \* the constructor arguments rate_per_sec, burst, ttl_seconds
  r_mono,           \* time.monotonic(), in seconds
  r_buckets,        \* RateLimiter._buckets : key -> (tokens, last)
  r_call,           \* the allow() call under way: its key and its local now
  r_sweep,          \* the cleanup thread: its position and its local now
  r_last_cleanup,   \* RateLimiter._last_cleanup
  r_thread_slept,   \* when the cleanup thread last went to sleep
  r_advances,       \* history: how often the clock has moved
  r_streak,         \* history: per key, the calls made at the latest instant
  r_drained,        \* history: per key, when a call last left 0 tokens (-1: not)
  r_kept,           \* the buckets of the same limiter when none is ever removed
  \* ---- one call of validate_path_in_storage ----
  h_in,             \* storage_root, target_path, the working directory, symlinks
  h_out,            \* the path returned or the HTTP error raised
  \* ---- download_by_token ----
  d_last            \* history: the last request, what consume did, the response

qvars == <<max_queue_size, max_workers, auto_publish, q, unfinished, jobs,
           statusFile, started, stop_set, stop_pc, stop_puts, wpc, wjob, wexc,
           accepted, dequeued, run_outcome, rejected, publish_outcome, spc>>

mvars == <<backend_setting, dynamic_workers, use_gpu, inference_lock,
           state_lock, model, loads, busy_gpu_tasks, last_used_ts,
           runtime_device, backend, fallback_reason, cpc, c_start_ts,
           c_inference_acquired, c_gpu_slot_acquired, c_model, c_exc,
           c_allowed, keep_history, last_acquire_ts, last_release_ts, c_entered_after>>

tvars == <<t_data, t_file, t_lock, tpc, t_arg, t_local, t_issued, t_results,
           t_ttl, t_restarts>>

gvars == <<g_args, g_allowed>>

\* The variables of the single-call specifications.
svars == <<f_target, f_tmp, f_pc, f_data, f_persisted, f_crashes, f_dir,
           f_named, f_rm>>

bvars == <<b_total, b_size, b_auto, b_pc, b_start, b_ranges, b_out,
          b_known, b_range, b_acq, b_held, b_md, b_fitz>>

xvars == <<gvars, svars, bvars>>

pvars == <<v_in, v_pc, v_error, v_entered, v_start>>

lvars == <<r_cfg, r_mono, r_buckets, r_last_cleanup, r_thread_slept,
           r_advances, r_streak, r_drained, r_kept, r_call, r_sweep>>

hvars == <<h_in, h_out>>

dvars == <<d_last>>

yvars == <<pvars, lvars, hvars, dvars>>

vars == <<now, qvars, mvars, tvars, xvars, yvars>>

(***************************************************************************)
(* The state of each component right after construction.                   *)
(***************************************************************************)
\* JobQueue.__init__
QueueFresh ==
  /\ q = << >>
  /\ unfinished = 0
  /\ jobs = << >>
  /\ statusFile = << >>
  /\ started = FALSE
  /\ stop_set = FALSE
  /\ stop_pc = "idle"
  /\ stop_puts = 0
  /\ wpc = [w \in 1..MaxWorkers |-> "unstarted"]
  /\ wjob = [w \in 1..MaxWorkers |-> Sentinel]
  /\ wexc = [w \in 1..MaxWorkers |-> NoText]
  /\ accepted = << >>
  /\ dequeued = << >>
  /\ run_outcome = [j \in JobIds |-> "none"]
  /\ rejected = {}
  /\ publish_outcome = [j \in JobIds |-> "none"]
  /\ spc = [j \in JobIds |-> "none"]

\* ModelManager.__init__
ManagerConstructed ==
  /\ inference_lock = FALSE
  /\ state_lock = 0
  /\ model = 0
  /\ loads = 0
  /\ busy_gpu_tasks = 0
  /\ last_used_ts = now
  /\ runtime_device = "unknown"
  /\ backend = backend_setting
  /\ fallback_reason = NoText
  /\ cpc = [c \in Callers |-> "idle"]
  /\ c_start_ts = [c \in Callers |-> 0]
  /\ c_inference_acquired = [c \in Callers |-> FALSE]
  /\ c_gpu_slot_acquired = [c \in Callers |-> FALSE]
  /\ c_model = [c \in Callers |-> 0]
  /\ c_exc = [c \in Callers |-> NoText]
  /\ c_allowed = [c \in Callers |-> 0]
  /\ last_acquire_ts = now
  /\ last_release_ts = now
  /\ c_entered_after = [c \in Callers |-> 0]

\* A new manager whose history variables are left unrecorded.
ManagerFresh == ManagerConstructed /\ keep_history = FALSE

\* TokenManager.__init__ with no store file yet
TokenFresh ==
  /\ t_data = << >>
  /\ t_file = << >>
  /\ t_lock = 0
  /\ tpc = [th \in Consumers |-> "idle"]
  /\ t_arg = [th \in Consumers |-> 0]
  /\ t_local = [th \in Consumers |-> << >>]
  /\ t_issued = << >>
  /\ t_results = [k \in Tokens |-> << >>]
  /\ t_ttl = << >>
  /\ t_restarts = 0

\* No call of _allowed_gpu_concurrency has been made.
GateCalcFresh ==
  /\ g_args = [dyn |-> TRUE, device |-> "unknown", mem |-> NoMem, mw |-> 0,
               reserve |-> 0, per_job |-> 1]
  /\ g_allowed = 0

\* No status file has been written.
StorageFresh ==
  /\ f_target = << >>
  /\ f_tmp = << >>
  /\ f_pc = "idle"
  /\ f_data = << >>
  /\ f_persisted = {}
  /\ f_crashes = 0
  /\ f_dir = TRUE
  /\ f_named = FALSE
  /\ f_rm = << >>

\* No document is being processed.
BatchFresh ==
  /\ b_total = 1
  /\ b_fitz = 1
  /\ b_size = 1
  /\ b_auto = TRUE
  /\ b_pc = "idle"
  /\ b_start = 1
  /\ b_ranges = << >>
  /\ b_out = << >>
  /\ b_known = TRUE
  /\ b_range = << >>
  /\ b_acq = 0
  /\ b_held = FALSE
  /\ b_md = << >>

\* run has not been called.
ValidateFresh ==
  /\ v_in = [is_url |-> FALSE, download_ok |-> TRUE, size_bytes |-> 0,
             max_upload_mb |-> 1, is_pdf |-> FALSE, pages |-> 0,
             max_pages |-> 0, enable_auto_batch |-> FALSE,
             batch_page_size |-> 1, page_ranges |-> FALSE]
  /\ v_pc = "idle"
  /\ v_error = "None"
  /\ v_entered = FALSE
  /\ v_start = 1

\* RateLimiter.__init__ with the smallest arguments, no call made
LimiterFresh ==
  /\ r_cfg = [rate_tenths |-> 0, burst |-> 0, ttl_seconds |-> 0]
  /\ r_mono = 0
  /\ r_buckets = << >>
  /\ r_call = NoCall
  /\ r_sweep = NoCall
  /\ r_last_cleanup = 0
  /\ r_thread_slept = 0
  /\ r_advances = 0
  /\ r_streak = [k \in Keys |-> NoStreak]
  /\ r_drained = [k \in Keys |-> -1]
  /\ r_kept = << >>

\* validate_path_in_storage has not been called.
PathFresh ==
  /\ h_in = [root |-> [abs |-> TRUE, parts |-> << >>],
             target |-> [abs |-> TRUE, parts |-> << >>],
             cwd |-> << >>, links |-> << >>]
  /\ h_out = NotCalled

\* The single-call components added to the model later.
\* No download request has been served.
NoRequest == [token |-> 0, live |-> FALSE, before |-> 0, after |-> 0, status |-> 0]

DownloadFresh == d_last = NoRequest

ExtraFresh == ValidateFresh /\ LimiterFresh /\ PathFresh /\ DownloadFresh

(***************************************************************************)
(* Clock: time.time() never goes backwards.                                *)
(***************************************************************************)
Tick ==
  /\ now < MaxTime
  /\ now' = now + 1
  /\ UNCHANGED <<qvars, mvars, tvars, xvars, yvars>>

(***************************************************************************)
(* Job and its persisted status.                                           *)
(***************************************************************************)
\* Job(task_id, paths, options): the dataclass defaults.
NewJob(id, t) ==
  [task_id |-> id, status |-> "queued", queued_at |-> t,
   started_at |-> NoTime, finished_at |-> NoTime, message |-> NoText]

\* Job.to_dict(); published is FALSE when the dict has no "published" key.
to_dict(job) ==
  [task_id |-> job.task_id, status |-> job.status, queued_at |-> job.queued_at,
   started_at |-> job.started_at, finished_at |-> job.finished_at,
   message |-> job.message, published |-> FALSE]

\* write_json(path, data): the new content of one file; existing is the
\* sequence <<content>> of the file when it exists, else <<>>.
write_json(existing, data) ==
  IF existing # <<>> /\ existing[1] = data THEN existing[1] ELSE data

\* save_status(paths, data) applied to the status files of all jobs.
save_status(files, id, data) ==
  LET existing == IF id \in DOMAIN files THEN <<files[id]>> ELSE <<>>
  IN [k \in DOMAIN files \cup {id} |->
        IF k = id THEN write_json(existing, data) ELSE files[k]]

\* Job.dump_status()
dump_status(files, job) == save_status(files, job.task_id, to_dict(job))

\* shutil.rmtree(root, ignore_errors=True): the job's directory is gone, and
\* with it job_status.json and job_status.json.tmp.
rmtree(files, id) == [k \in DOMAIN files \ {id} |-> files[k]]

\* write_json gets past its "content is the same" test and writes the
\* temporary file: between tmp.open(...) and tmp.replace(path) a removal of
\* the directory makes the replace raise FileNotFoundError.
writes_tmp(files, id, data) == ~(id \in DOMAIN files /\ files[id] = data)

(***************************************************************************)
(* queue.Queue(maxsize=max(1, max_queue_size))                             *)
(***************************************************************************)
Capacity(mqs) == Max(1, mqs)

\* Queue.put(item, block=False): full is TRUE when queue.Full is raised.
put_nowait_unbounded(queue, item, cap) ==
  [full |-> FALSE, q |-> Append(queue, item)]

put_nowait(queue, item, cap) ==
  IF Len(queue) >= cap
    THEN [full |-> TRUE, q |-> queue]
    ELSE [full |-> FALSE, q |-> Append(queue, item)]

\* Queue.get(): the item handed out and the remaining queue (FIFO).
queue_get_lifo(queue) ==
  [item |-> queue[Len(queue)], rest |-> SubSeq(queue, 1, Len(queue) - 1)]

queue_get(queue) == [item |-> Head(queue), rest |-> Tail(queue)]

\* start(): the number of worker threads.
NumWorkers(mw) == Max(1, mw)

WorkerIds == 1..MaxWorkers
Workers == 1..NumWorkers(max_workers)

SetJob(id, rec) == [jobs EXCEPT ![id] = rec]

(***************************************************************************)
(* JobQueue.submit(job)                                                    *)
(***************************************************************************)
SubmitFrame == <<now, max_queue_size, max_workers, auto_publish, started,
                 stop_set, stop_pc, stop_puts, wpc, wjob, wexc, dequeued,
                 run_outcome, publish_outcome, mvars, tvars, xvars, yvars>>

\* submit(job) is called with a Job built at time t (queued_at is the
\* time.time() of its construction): with self._lock: self._jobs[id] = job
SubmitInsert(id, t) ==
  /\ id \in JobIds
  /\ t \in 0..now
  /\ spc[id] = "none"
  /\ \A k \in JobIds : k < id => spc[k] # "none"
  /\ jobs' = [k \in DOMAIN jobs \cup {id} |->
                IF k = id THEN NewJob(id, t) ELSE jobs[k]]
  /\ spc' = [spc EXCEPT ![id] = "inserted"]
  /\ UNCHANGED <<q, unfinished, statusFile, accepted, rejected, SubmitFrame>>

\* job.dump_status(), outside the lock
SubmitDump(id) ==
  /\ id \in JobIds
  /\ spc[id] = "inserted"
  /\ statusFile' = dump_status(statusFile, jobs[id])
  /\ spc' = [spc EXCEPT ![id] = "dumped"]
  /\ UNCHANGED <<q, unfinished, jobs, accepted, rejected, SubmitFrame>>

\* job.dump_status() while the job's directory is removed between the write
\* of the temporary file and its rename: FileNotFoundError leaves submit(),
\* the job stays in the table and is never put
SubmitDumpRaced(id) ==
  /\ id \in JobIds
  /\ spc[id] = "inserted"
  /\ writes_tmp(statusFile, id, to_dict(jobs[id]))
  /\ statusFile' = rmtree(statusFile, id)
  /\ spc' = [spc EXCEPT ![id] = "raised"]
  /\ UNCHANGED <<q, unfinished, jobs, accepted, rejected, SubmitFrame>>

\* self._q.put(job, block=False): return True, or False on queue.Full
SubmitPut(id) ==
  /\ id \in JobIds
  /\ spc[id] = "dumped"
  /\ LET r == put_nowait(q, id, Capacity(max_queue_size))
     IN /\ q' = r.q
        /\ unfinished' = IF r.full THEN unfinished ELSE unfinished + 1
        /\ accepted' = IF r.full THEN accepted ELSE Append(accepted, id)
        /\ rejected' = IF r.full THEN rejected \cup {id} ELSE rejected
  /\ spc' = [spc EXCEPT ![id] = "returned"]
  /\ UNCHANGED <<jobs, statusFile, SubmitFrame>>

\* The three steps of JobQueue.submit(job).
Submit(id) ==
  \/ \E t \in 0..MaxTime : SubmitInsert(id, t)
  \/ SubmitDump(id)
  \/ SubmitDumpRaced(id)
  \/ SubmitPut(id)

(***************************************************************************)
(* DELETE /tasks/{task_id}: shutil.rmtree of the job's directory, and with *)
(* it of its status file, while no thread is inside write_json for that    *)
(* job.  A removal that falls between the two file operations of a         *)
(* write_json call is the ...Raced step of the writing thread.             *)
(***************************************************************************)
DeleteTask(id) ==
  /\ id \in DOMAIN statusFile
  /\ statusFile' = rmtree(statusFile, id)
  /\ UNCHANGED <<q, unfinished, jobs, accepted, rejected, spc, SubmitFrame>>

(***************************************************************************)
(* JobQueue.start(): spawn max(1, max_workers) worker threads.             *)
(***************************************************************************)
Start ==
  /\ ~started
  /\ started' = TRUE
  /\ wpc' = [w \in WorkerIds |-> IF w \in Workers THEN "loop" ELSE wpc[w]]
  /\ UNCHANGED <<now, max_queue_size, max_workers, auto_publish, q, unfinished,
                 jobs, statusFile, stop_set, stop_pc, stop_puts, wjob, wexc,
                 accepted, dequeued, run_outcome, rejected, publish_outcome,
                 spc, mvars, tvars, xvars, yvars>>

(***************************************************************************)
(* JobQueue._worker                                                        *)
(***************************************************************************)
WorkerFrame == <<now, max_queue_size, max_workers, auto_publish, started,
                 stop_set, stop_pc, stop_puts, accepted, rejected, spc,
                 mvars, tvars, xvars, yvars>>

\* while not self._stop.is_set()
WorkerCheckStop(w) ==
  /\ wpc[w] = "loop"
  /\ wpc' = [wpc EXCEPT ![w] = IF stop_set THEN "exited" ELSE "get"]
  /\ UNCHANGED <<q, unfinished, jobs, statusFile, wjob, wexc, dequeued,
                 run_outcome, publish_outcome,
                 WorkerFrame>>

\* job = self._q.get(timeout=0.5) finds an item; None is the exit signal.
WorkerGet(w) ==
  /\ wpc[w] = "get"
  /\ q # << >>
  /\ LET g == queue_get(q)
     IN /\ q' = g.rest
        /\ IF g.item = Sentinel
             THEN /\ wpc' = [wpc EXCEPT ![w] = "loop"]
                  /\ UNCHANGED <<wjob, dequeued>>
             ELSE /\ wpc' = [wpc EXCEPT ![w] = "got"]
                  /\ wjob' = [wjob EXCEPT ![w] = g.item]
                  /\ dequeued' = Append(dequeued, g.item)
  /\ UNCHANGED <<unfinished, jobs, statusFile, wexc, run_outcome, publish_outcome,
                 WorkerFrame>>

\* self._q.get(timeout=0.5) raises queue.Empty: continue
WorkerGetTimeout(w) ==
  /\ wpc[w] = "get"
  /\ q = << >>
  /\ wpc' = [wpc EXCEPT ![w] = "loop"]
  /\ UNCHANGED <<q, unfinished, jobs, statusFile, wjob, wexc, dequeued,
                 run_outcome, publish_outcome,
                 WorkerFrame>>

\* Variant of the worker that does not set started_at.
WorkerMarkProcessingNoStart(w) ==
  /\ wpc[w] = "got"
  /\ LET job == [jobs[wjob[w]] EXCEPT !.status = "processing"]
     IN /\ jobs' = SetJob(wjob[w], job)
        /\ statusFile' = dump_status(statusFile, job)
  /\ wpc' = [wpc EXCEPT ![w] = "run"]
  /\ UNCHANGED <<q, unfinished, wjob, wexc, dequeued, run_outcome, publish_outcome,
                 WorkerFrame>>

\* job.status = processing; job.started_at = time.time(); job.dump_status()
WorkerMarkProcessing(w) ==
  /\ wpc[w] = "got"
  /\ LET job == [jobs[wjob[w]] EXCEPT !.status = "processing", !.started_at = now]
     IN /\ jobs' = SetJob(wjob[w], job)
        /\ statusFile' = dump_status(statusFile, job)
  /\ wpc' = [wpc EXCEPT ![w] = "run"]
  /\ UNCHANGED <<q, unfinished, wjob, wexc, dequeued, run_outcome, publish_outcome,
                 WorkerFrame>>

\* The same three statements while the job's directory is removed between
\* the write of the temporary file and its rename: dump_status raises
\* FileNotFoundError outside the try block and the thread ends.
WorkerMarkProcessingRaced(w) ==
  /\ wpc[w] = "got"
  /\ LET job == [jobs[wjob[w]] EXCEPT !.status = "processing", !.started_at = now]
     IN /\ writes_tmp(statusFile, wjob[w], to_dict(job))
        /\ jobs' = SetJob(wjob[w], job)
        /\ statusFile' = rmtree(statusFile, wjob[w])
  /\ wpc' = [wpc EXCEPT ![w] = "died"]
  /\ wexc' = [wexc EXCEPT ![w] = "FileNotFoundError"]
  /\ UNCHANGED <<q, unfinished, wjob, dequeued, run_outcome, publish_outcome,
                 WorkerFrame>>

\* self.pipeline.run(...) returns: job.status = succeeded
PipelineReturns(w) ==
  /\ wpc[w] = "run"
  /\ jobs' = SetJob(wjob[w], [jobs[wjob[w]] EXCEPT !.status = "succeeded"])
  /\ run_outcome' = [run_outcome EXCEPT ![wjob[w]] = "returned"]
  /\ wpc' = [wpc EXCEPT ![w] = IF auto_publish THEN "publish" ELSE "finally"]
  /\ UNCHANGED <<q, unfinished, statusFile, wjob, wexc, dequeued, publish_outcome,
                 WorkerFrame>>

\* self.pipeline.run(...) raises e
PipelineRaises(w, e) ==
  /\ wpc[w] = "run"
  /\ wexc' = [wexc EXCEPT ![w] = e]
  /\ run_outcome' = [run_outcome EXCEPT ![wjob[w]] = e]
  /\ wpc' = [wpc EXCEPT ![w] = "except"]
  /\ UNCHANGED <<q, unfinished, jobs, statusFile, wjob, dequeued, publish_outcome,
                 WorkerFrame>>

\* auto publish succeeds: data = job.to_dict(); data["published"] = info;
\* save_status(job.paths, data)
PublishOk(w) ==
  /\ wpc[w] = "publish"
  /\ statusFile' = save_status(statusFile, wjob[w],
                      [to_dict(jobs[wjob[w]]) EXCEPT !.published = TRUE])
  /\ publish_outcome' = [publish_outcome EXCEPT ![wjob[w]] = "published"]
  /\ wpc' = [wpc EXCEPT ![w] = "finally"]
  /\ UNCHANGED <<q, unfinished, jobs, wjob, wexc, dequeued, run_outcome,
                 WorkerFrame>>

\* publish() returns and save_status raises FileNotFoundError because the
\* job's directory is removed between the write of the temporary file and
\* its rename: the inner except swallows it
PublishOkRaced(w) ==
  /\ wpc[w] = "publish"
  /\ writes_tmp(statusFile, wjob[w],
                [to_dict(jobs[wjob[w]]) EXCEPT !.published = TRUE])
  /\ statusFile' = rmtree(statusFile, wjob[w])
  /\ publish_outcome' = [publish_outcome EXCEPT ![wjob[w]] = "save_raised"]
  /\ wpc' = [wpc EXCEPT ![w] = "finally"]
  /\ UNCHANGED <<q, unfinished, jobs, wjob, wexc, dequeued, run_outcome,
                 WorkerFrame>>

\* Variant without the inner try/except: a publish error reaches the outer
\* except clause.
PublishFailsEscapes(w) ==
  /\ wpc[w] = "publish"
  /\ wexc' = [wexc EXCEPT ![w] = "err_a"]
  /\ publish_outcome' = [publish_outcome EXCEPT ![wjob[w]] = "raised"]
  /\ wpc' = [wpc EXCEPT ![w] = "except"]
  /\ UNCHANGED <<q, unfinished, jobs, statusFile, wjob, dequeued,
                 run_outcome, WorkerFrame>>

\* auto publish raises: the inner except swallows it
PublishFails(w) ==
  /\ wpc[w] = "publish"
  /\ publish_outcome' = [publish_outcome EXCEPT ![wjob[w]] = "raised"]
  /\ wpc' = [wpc EXCEPT ![w] = "finally"]
  /\ UNCHANGED <<q, unfinished, jobs, statusFile, wjob, wexc, dequeued,
                 run_outcome, WorkerFrame>>

\* except Exception as e: job.status = failed; job.message = str(e)
ExceptHandler(w) ==
  /\ wpc[w] = "except"
  /\ jobs' = SetJob(wjob[w], [jobs[wjob[w]] EXCEPT !.status = "failed",
                                                   !.message = wexc[w]])
  /\ wpc' = [wpc EXCEPT ![w] = "finally"]
  /\ UNCHANGED <<q, unfinished, statusFile, wjob, wexc, dequeued, run_outcome,
                 publish_outcome,
                 WorkerFrame>>

\* finally: job.finished_at = time.time(); job.dump_status();
\* self._q.task_done(); back to the top of the loop
Finally(w) ==
  /\ wpc[w] = "finally"
  /\ LET job == [jobs[wjob[w]] EXCEPT !.finished_at = now]
     IN /\ jobs' = SetJob(wjob[w], job)
        /\ statusFile' = dump_status(statusFile, job)
  /\ unfinished' = unfinished - 1
  /\ wpc' = [wpc EXCEPT ![w] = "loop"]
  /\ wjob' = [wjob EXCEPT ![w] = Sentinel]
  /\ wexc' = [wexc EXCEPT ![w] = NoText]
  /\ UNCHANGED <<q, dequeued, run_outcome, publish_outcome,
                 WorkerFrame>>

\* finally: job.finished_at = time.time(); job.dump_status() raises
\* FileNotFoundError because the job's directory is removed between the
\* write of the temporary file and its rename: task_done() is not reached
\* and the thread ends.
FinallyRaced(w) ==
  /\ wpc[w] = "finally"
  /\ LET job == [jobs[wjob[w]] EXCEPT !.finished_at = now]
     IN /\ writes_tmp(statusFile, wjob[w], to_dict(job))
        /\ jobs' = SetJob(wjob[w], job)
        /\ statusFile' = rmtree(statusFile, wjob[w])
  /\ wpc' = [wpc EXCEPT ![w] = "died"]
  /\ wexc' = [wexc EXCEPT ![w] = "FileNotFoundError"]
  /\ UNCHANGED <<q, unfinished, wjob, dequeued, run_outcome, publish_outcome,
                 WorkerFrame>>

WorkerStep(w) ==
  \/ WorkerCheckStop(w)
  \/ WorkerGet(w)
  \/ WorkerGetTimeout(w)
  \/ WorkerMarkProcessing(w)
  \/ WorkerMarkProcessingRaced(w)
  \/ PipelineReturns(w)
  \/ \E e \in Errors : PipelineRaises(w, e)
  \/ PublishOk(w)
  \/ PublishOkRaced(w)
  \/ PublishFails(w)
  \/ ExceptHandler(w)
  \/ Finally(w)
  \/ FinallyRaced(w)

(***************************************************************************)
(* JobQueue.stop()                                                         *)
(***************************************************************************)
StopFrame == <<now, max_queue_size, max_workers, auto_publish, jobs,
               statusFile, started, wpc, wjob, wexc, accepted, dequeued,
               run_outcome, rejected, publish_outcome, spc, mvars, tvars,
               xvars, yvars>>

\* self._stop.set()
StopSet ==
  /\ stop_pc = "idle"
  /\ stop_set' = TRUE
  /\ stop_pc' = "put"
  /\ UNCHANGED <<q, unfinished, stop_puts, StopFrame>>

\* for _ in self._workers: self._q.put(None)   (a blocking put)
StopPut ==
  /\ stop_pc = "put"
  /\ stop_puts < (IF started THEN NumWorkers(max_workers) ELSE 0)
  /\ Len(q) < Capacity(max_queue_size)
  /\ q' = Append(q, Sentinel)
  /\ unfinished' = unfinished + 1
  /\ stop_puts' = stop_puts + 1
  /\ UNCHANGED <<stop_set, stop_pc, StopFrame>>

\* for t in self._workers: t.join(timeout=1.0)
StopJoin ==
  /\ stop_pc = "put"
  /\ stop_puts = (IF started THEN NumWorkers(max_workers) ELSE 0)
  /\ stop_pc' = "done"
  /\ UNCHANGED <<q, unfinished, stop_set, stop_puts, StopFrame>>

(***************************************************************************)
(* Specification of the JobQueue.                                          *)
(***************************************************************************)
QueueInit ==
  /\ now = 0
  /\ max_queue_size \in {0, MaxQueueSize}
  /\ max_workers \in {0, MaxWorkers}
  /\ auto_publish \in BOOLEAN
  /\ QueueFresh
  /\ backend_setting = "hf"
  /\ dynamic_workers = TRUE
  /\ use_gpu = FALSE
  /\ ManagerFresh
  /\ TokenFresh
  /\ GateCalcFresh
  /\ StorageFresh
  /\ ExtraFresh
  /\ BatchFresh

QueueNext ==
  \/ \E id \in JobIds : Submit(id)
  \/ \E id \in JobIds : DeleteTask(id)
  \/ Start
  \/ \E w \in Workers : WorkerStep(w)
  \/ StopSet
  \/ StopPut
  \/ StopJoin

QueueSpec == QueueInit /\ [][QueueNext]_vars

\* The queue with its workers and no shutdown: every worker thread keeps
\* being scheduled, and every Pipeline.run call returns or raises.
QueueLiveNext ==
  \/ \E id \in JobIds : Submit(id)
  \/ \E id \in JobIds : DeleteTask(id)
  \/ Start
  \/ \E w \in Workers : WorkerStep(w)

QueueLiveSpec ==
  /\ QueueInit
  /\ [][QueueLiveNext]_vars
  /\ \A w \in WorkerIds : WF_vars(WorkerStep(w))

(***************************************************************************)
(* Properties of the JobQueue.                                             *)
(***************************************************************************)
Range(seq) == {seq[i] : i \in 1..Len(seq)}
IsPrefix(a, b) == Len(a) <= Len(b) /\ a = SubSeq(b, 1, Len(a))
Terminal(st) == st \in {"succeeded", "failed"}
UnusedIds == JobIds \ DOMAIN jobs
QueueFull == Len(q) >= Capacity(max_queue_size)

\* C1: the queue never holds more than max(1, max_queue_size) entries; a
\* submit() that reaches its put is never blocked (the put is enabled); when
\* the queue is full at that moment it leaves the queue as it was and
\* returns False, and otherwise it appends the job and returns True.
C1_Backpressure ==
  /\ [](Len(q) <= Capacity(max_queue_size))
  /\ [](\A id \in JobIds : spc[id] = "dumped" => ENABLED SubmitPut(id))
  /\ [](\A id \in JobIds :
         spc[id] = "raised" => id \notin Range(q) /\ id \notin Range(accepted))
  /\ [][\A id \in JobIds :
          (spc[id] = "dumped" /\ spc'[id] = "returned")
            => IF QueueFull
                 THEN q' = q /\ accepted' = accepted /\ id \in rejected'
                 ELSE q' = Append(q, id) /\ id \notin rejected'
                      /\ accepted' = Append(accepted, id)]_vars

\* A submit() was rejected on a full queue, which still is full.
C1_Witness ==
  /\ QueueFull
  /\ \E id \in rejected : spc[id] = "returned" /\ id \notin Range(accepted)

\* The order queued, processing, then one of succeeded | failed.
Forward(s, t) ==
  \/ s = t
  \/ s = "queued" /\ t \in {"processing", "succeeded", "failed"}
  \/ s = "processing" /\ t \in {"succeeded", "failed"}

\* C2: for every job, the status held in memory (what get() returns) and the
\* status in its persisted status file only ever move forward along
\* queued, processing, succeeded | failed, and a terminal status never
\* changes.  A status file deleted through DELETE /tasks/{task_id} is
\* written anew from the job, never with an earlier status.
C2_StatusMonotonic ==
  [][\A j \in DOMAIN jobs :
       /\ Forward(jobs[j].status, jobs'[j].status)
       /\ (j \in DOMAIN statusFile /\ j \in DOMAIN statusFile') =>
            Forward(statusFile[j].status, statusFile'[j].status)
       /\ j \in DOMAIN statusFile' =>
            Forward(statusFile'[j].status, jobs'[j].status)]_vars

\* One job has ended succeeded and another failed, in memory and on disk.
C2_Witness ==
  \E j, k \in DOMAIN jobs :
    /\ j \in DOMAIN statusFile /\ k \in DOMAIN statusFile
    /\ jobs[j].status = "succeeded" /\ statusFile[j].status = "succeeded"
    /\ jobs[k].status = "failed" /\ statusFile[k].status = "failed"

\* C8: when Pipeline.run raises for a job, the except clause marks exactly
\* that job failed with the exception text as message and changes no other
\* job; the worker then runs the finally clause for that job, persists its
\* status, changes no other job and is back at the top of its loop, alive;
\* the finished job is failed with that message.
C8_FailureContained ==
  /\ [](\A j \in DOMAIN jobs :
          (run_outcome[j] \in Errors /\ jobs[j].finished_at # NoTime)
            => /\ jobs[j].status = "failed"
               /\ jobs[j].message = run_outcome[j]
               /\ j \in DOMAIN statusFile =>
                    /\ statusFile[j].status = "failed"
                    /\ statusFile[j].message = run_outcome[j])
  /\ [][\A w \in Workers :
          /\ (wpc[w] = "except" /\ wpc'[w] # "except")
               => /\ wpc'[w] = "finally"
                  /\ jobs'[wjob[w]].status = "failed"
                  /\ jobs'[wjob[w]].message = wexc[w]
                  /\ \A j \in DOMAIN jobs : j # wjob[w] => jobs'[j] = jobs[j]
          /\ (/\ wpc[w] = "finally" /\ wpc'[w] # "finally"
              /\ run_outcome[wjob[w]] \in Errors)
               => /\ wpc'[w] = "loop"
                  /\ wjob[w] \in DOMAIN statusFile'
                  /\ statusFile'[wjob[w]].status = jobs'[wjob[w]].status
                  /\ \A j \in DOMAIN jobs :
                       j # wjob[w] =>
                         /\ jobs'[j] = jobs[j]
                         /\ j \in DOMAIN statusFile <=> j \in DOMAIN statusFile'
                         /\ j \in DOMAIN statusFile =>
                              statusFile'[j] = statusFile[j]]_vars

\* An accepted job has run to its end and its terminal status is persisted.
Done(j) ==
  /\ j \in DOMAIN jobs
  /\ Terminal(jobs[j].status)
  /\ jobs[j].finished_at # NoTime
  /\ j \in DOMAIN statusFile
  /\ statusFile[j].status = jobs[j].status
  /\ statusFile[j].finished_at = jobs[j].finished_at

\* The job has run to its end, and its status file, unless the job's
\* directory was deleted since, holds the terminal status.
Ended(j) ==
  /\ j \in DOMAIN jobs
  /\ Terminal(jobs[j].status)
  /\ jobs[j].finished_at # NoTime
  /\ j \in DOMAIN statusFile =>
       /\ statusFile[j].status = jobs[j].status
       /\ statusFile[j].finished_at = jobs[j].finished_at

\* The step that sets finished_at leaves the terminal status persisted.
C9_FinishStep ==
  \A j \in DOMAIN jobs :
    (jobs[j].finished_at = NoTime /\ jobs'[j].finished_at # NoTime) => Done(j)'

\* C9: once the workers are started, every job for which submit() returned
\* True eventually is succeeded or failed with finished_at set, and that
\* status is persisted in the step that sets finished_at and stays in the
\* status file for as long as the file exists (no stop(), every
\* Pipeline.run returns or raises).
C9_AcceptedJobsFinish ==
  /\ \A j \in JobIds : (started /\ j \in Range(accepted)) ~> Ended(j)
  /\ [][C9_FinishStep]_vars

\* C10: workers take jobs off the queue in the order submit() accepted
\* them: the sequence of dequeued jobs is a prefix of the accepted ones.
C10_Fifo == IsPrefix(dequeued, accepted)

\* Two jobs waited in the queue together and both were dequeued.
C10_Witness ==
  /\ Len(dequeued) >= 2
  /\ \E w1, w2 \in Workers : w1 # w2 /\ wpc[w1] = "run" /\ wpc[w2] = "got"

\* C11: a job for which submit() returned False was never created: it is
\* absent from the job table (get() returns nothing) and has no status file.
C11_RejectedNeverCreated ==
  \A id \in rejected : id \notin DOMAIN jobs /\ id \notin DOMAIN statusFile

\* C12: with auto publish on, a job whose Pipeline.run returned is succeeded
\* with no message from then on, whether the publish step succeeded or
\* raised, and that is what its status file holds once it has finished.
C12_PublishNeverDowngrades ==
  \A j \in DOMAIN jobs :
    (auto_publish /\ run_outcome[j] = "returned")
      => /\ jobs[j].status = "succeeded"
         /\ jobs[j].message = NoText
         /\ (jobs[j].finished_at # NoTime /\ j \in DOMAIN statusFile)
              => /\ statusFile[j].status = "succeeded"
                 /\ statusFile[j].message = NoText

\* A job whose publish step raised has finished succeeded.
C12_Witness ==
  \E j \in DOMAIN jobs :
    /\ auto_publish
    /\ run_outcome[j] = "returned"
    /\ publish_outcome[j] = "raised"
    /\ jobs[j].finished_at # NoTime
    /\ j \in DOMAIN statusFile
    /\ statusFile[j].status = "succeeded"

(***************************************************************************)
(* ModelManager: memory gate.  Memory is counted in units of 0.1 GB.       *)
(***************************************************************************)
\* settings.mem_per_job_gb and settings.reserve_gpu_mem_gb (defaults, 8.0
\* and 1.0 GB)
MemPerJob == 80
ReserveGpuMem == 10
\* the floor 0.1 of max(0.1, self.settings.mem_per_job_gb)
MinPerJob == 1
\* What get_gpu_memory_gb() may report as free memory: None, or 5, 10, 17
\* or 26 GB.
GpuFreeReadings == {NoMem, 50, 100, 170, 260}

\* free_gb, reserve_gpu_mem_gb and mem_per_job_gb are Python floats, binary
\* doubles, and a tenth of a GB is not one: at an exact multiple the rounded
\* operands of `usable // per` can fall just short of it, as in
\* 0.5 - 0.2 = 0.3 and 0.3 // 0.1 == 2.0.  FloatShort holds the triples
\* (free, reserve, per job), in tenths of a GB up to MaxFree, MaxReserve and
\* MaxPerJob, at which int(max(0.0, free - reserve) // per) in IEEE-754
\* double arithmetic is one below the exact quotient; at every other triple
\* within these bounds, and whenever all three are whole numbers of GB (which
\* binary doubles hold exactly), the two are equal.
FloatShort ==
  { <<3, 0, 1>>, <<3, 1, 1>>, <<3, 1, 2>>, <<3, 2, 1>>, <<5, 0, 1>>,
    <<5, 2, 1>>, <<6, 0, 1>>, <<6, 0, 2>>, <<6, 1, 1>>, <<6, 2, 1>>,
    <<6, 2, 2>>, <<6, 2, 4>>, <<7, 0, 1>>, <<7, 1, 1>>, <<7, 1, 2>>,
    <<7, 2, 1>>, <<7, 2, 5>>, <<9, 0, 1>>, <<9, 2, 1>>, <<10, 0, 1>>,
    <<10, 0, 2>>, <<10, 1, 1>>, <<11, 1, 1>>, <<11, 1, 2>>, <<12, 0, 1>>,
    <<12, 0, 2>>, <<12, 0, 4>>, <<12, 1, 1>>, <<12, 2, 1>>, <<12, 2, 2>>,
    <<13, 0, 1>>, <<13, 1, 1>>, <<13, 1, 2>>, <<13, 1, 4>>, <<14, 0, 1>>,
    <<14, 0, 2>>, <<14, 1, 1>>, <<14, 2, 1>>, <<14, 2, 2>>, <<14, 2, 4>>,
    <<15, 0, 1>>, <<15, 1, 1>>, <<15, 1, 2>>, <<15, 2, 1>>, <<16, 1, 1>>,
    <<17, 0, 1>>, <<17, 1, 1>>, <<17, 1, 2>>, <<17, 1, 4>>, <<17, 1, 8>>,
    <<17, 2, 1>> }

\* int(usable // per) with usable = max(0.0, free_gb - reserve)
float_floor_div(free, reserve, per) ==
  (Max(0, free - reserve) \div per)
    - (IF <<free, reserve, per>> \in FloatShort THEN 1 ELSE 0)

\* ModelManager._allowed_gpu_concurrency as a function of what it reads:
\* settings.dynamic_workers, runtime_device, the free memory reported by
\* get_gpu_memory_gb (NoMem: None), settings.max_workers,
\* settings.reserve_gpu_mem_gb and settings.mem_per_job_gb.
allowed_gpu_concurrency_with(dyn, device, mem, mw, reserve, per_job) ==
  IF ~dyn THEN Max(1, Min(mw, 1))
  ELSE IF device # "gpu" THEN 1
  ELSE IF mem = NoMem THEN 1
  ELSE LET allowed == float_floor_div(mem, Max(0, reserve),
                                      Max(MinPerJob, per_job))
       IN Max(1, Min(mw, IF allowed <= 0 THEN 1 ELSE allowed))

\* Variant without the clamp to settings.max_workers.
allowed_gpu_concurrency_unclamped(dyn, device, mem, mw) ==
  IF ~dyn THEN Max(1, Min(mw, 1))
  ELSE IF device # "gpu" THEN 1
  ELSE IF mem = NoMem THEN 1
  ELSE LET allowed == float_floor_div(mem, Max(0, ReserveGpuMem),
                                      Max(MinPerJob, MemPerJob))
       IN IF allowed <= 0 THEN 1 ELSE allowed

\* ModelManager._allowed_gpu_concurrency under the default memory settings
allowed_gpu_concurrency(dyn, device, mem, mw) ==
  allowed_gpu_concurrency_with(dyn, device, mem, mw, ReserveGpuMem, MemPerJob)

\* ModelManager._check_memory_available; pressure is check_memory_pressure()
check_memory_available(pressure, device, mem) ==
  IF pressure THEN FALSE
  ELSE IF device # "gpu" THEN TRUE
  ELSE IF mem = NoMem THEN FALSE
  ELSE mem > ReserveGpuMem + MemPerJob

\* ModelManager._try_set_device
try_set_device(gpu) == IF gpu THEN "gpu" ELSE "cpu"

\* The ways _load_impl can end for a configured backend.
LoadOutcomes(setting) ==
  IF setting = "vllm" THEN {"vllm", "fallback_hf", "fail"} ELSE {"hf", "fail"}

(***************************************************************************)
(* One call of _allowed_gpu_concurrency on arbitrary settings and readings. *)
(***************************************************************************)
Devices == {"gpu", "cpu", "unknown"}

GateArgs ==
  [dyn : BOOLEAN, device : Devices, mem : {NoMem} \cup (0..MaxFree),
   mw : 0..MaxWorkerCap, reserve : 0..MaxReserve, per_job : MinPerJob..MaxPerJob]

ComputeAllowed ==
  /\ g_allowed = 0
  /\ g_allowed' = allowed_gpu_concurrency_with(
                    g_args.dyn, g_args.device, g_args.mem, g_args.mw,
                    g_args.reserve, g_args.per_job)
  /\ UNCHANGED <<now, g_args, qvars, mvars, tvars, svars, bvars, yvars>>

GateCalcInit ==
  /\ now = 0
  /\ max_queue_size = 0
  /\ max_workers = 0
  /\ auto_publish = FALSE
  /\ QueueFresh
  /\ backend_setting = "hf"
  /\ dynamic_workers = TRUE
  /\ use_gpu = FALSE
  /\ ManagerFresh
  /\ TokenFresh
  /\ g_args \in GateArgs
  /\ g_allowed = 0
  /\ StorageFresh
  /\ ExtraFresh
  /\ BatchFresh

GateCalcNext == ComputeAllowed

GateCalcSpec == GateCalcInit /\ [][GateCalcNext]_vars

\* floor((F - R) / P)
FloorShare(F, R, P) == (F - R) \div P

\* C13: on GPU with dynamic workers and readable memory the call returns
\* max(1, floor((F - R) / P)) clamped to at most the worker cap
\* max(1, max_workers); in every other case it returns 1.  (F >= 0, R >= 0
\* and P at least the 0.1 GB floor.)
C13_AllowedFormula ==
  g_allowed # 0 =>
    g_allowed =
      (IF g_args.dyn /\ g_args.device = "gpu" /\ g_args.mem # NoMem
         THEN Min(Max(1, FloorShare(g_args.mem, g_args.reserve, g_args.per_job)),
                  Max(1, g_args.mw))
         ELSE 1)

(***************************************************************************)
(* ModelManager.inference_context                                          *)
(***************************************************************************)
QTFrame == <<qvars, tvars, xvars, yvars>>

\* The engine unloaded most recently (0: none): engines are numbered in the
\* order they are built.
LastUnloaded == IF model = 0 THEN loads ELSE Max(0, loads - 1)
SettingsFrame == <<backend_setting, dynamic_workers, use_gpu, keep_history>>

SetPc(c, pc) == [cpc EXCEPT ![c] = pc]

\* start_ts = time.time(); inference_acquired = gpu_slot_acquired = False
Enter(c) ==
  /\ cpc[c] = "idle"
  /\ cpc' = SetPc(c, "check_backend")
  /\ c_start_ts' = [c_start_ts EXCEPT ![c] = now]
  /\ c_exc' = [c_exc EXCEPT ![c] = NoText]
  /\ UNCHANGED <<now, c_model, inference_lock, state_lock, model, loads, busy_gpu_tasks,
                 last_used_ts, runtime_device, backend, fallback_reason,
                 c_inference_acquired, c_gpu_slot_acquired, SettingsFrame, QTFrame>>
  /\ c_entered_after' = IF keep_history
                          THEN [c_entered_after EXCEPT ![c] = LastUnloaded]
                          ELSE c_entered_after
  /\ UNCHANGED <<last_acquire_ts, last_release_ts, c_allowed>>

\* if self.backend != "vllm":
CheckBackend(c) ==
  /\ cpc[c] = "check_backend"
  /\ cpc' = SetPc(c, IF backend # "vllm" THEN "lock_wait" ELSE "get_model")
  /\ UNCHANGED <<now, inference_lock, state_lock, model, loads, busy_gpu_tasks,
                 last_used_ts, runtime_device, backend, fallback_reason,
                 c_start_ts, c_inference_acquired, c_gpu_slot_acquired, c_model,
                 c_exc, SettingsFrame, QTFrame>>
  /\ UNCHANGED <<last_acquire_ts, last_release_ts, c_entered_after, c_allowed>>

\* Variant whose acquire succeeds although the lock is held.
LockAcquireAlways(c) ==
  /\ cpc[c] = "lock_wait"
  /\ inference_lock' = TRUE
  /\ c_inference_acquired' = [c_inference_acquired EXCEPT ![c] = TRUE]
  /\ cpc' = SetPc(c, "get_model")
  /\ UNCHANGED <<now, state_lock, model, loads, busy_gpu_tasks,
                 last_used_ts, runtime_device, backend, fallback_reason,
                 c_start_ts, c_gpu_slot_acquired, c_model,
                 c_exc, SettingsFrame, QTFrame>>
  /\ UNCHANGED <<last_acquire_ts, last_release_ts, c_entered_after, c_allowed>>

\* self._inference_lock.acquire(blocking=False) succeeds;
\* inference_acquired = True
LockAcquire(c) ==
  /\ cpc[c] = "lock_wait"
  /\ ~inference_lock
  /\ inference_lock' = TRUE
  /\ c_inference_acquired' = [c_inference_acquired EXCEPT ![c] = TRUE]
  /\ cpc' = SetPc(c, "get_model")
  /\ UNCHANGED <<now, state_lock, model, loads, busy_gpu_tasks,
                 last_used_ts, runtime_device, backend, fallback_reason,
                 c_start_ts, c_gpu_slot_acquired, c_model,
                 c_exc, SettingsFrame, QTFrame>>
  /\ UNCHANGED <<last_acquire_ts, last_release_ts, c_entered_after, c_allowed>>

\* self._inference_lock.acquire(blocking=False) returns False: the loop body
\* is entered
LockBusy(c) ==
  /\ cpc[c] = "lock_wait"
  /\ inference_lock
  /\ cpc' = SetPc(c, "lock_deadline")
  /\ UNCHANGED <<now, inference_lock, state_lock, model, loads, busy_gpu_tasks,
                 last_used_ts, runtime_device, backend, fallback_reason,
                 c_start_ts, c_inference_acquired, c_gpu_slot_acquired, c_model,
                 c_exc, SettingsFrame, QTFrame>>
  /\ UNCHANGED <<last_acquire_ts, last_release_ts, c_entered_after, c_allowed>>

\* Variant that sets inference_acquired before the lock is obtained.
LockTimeoutFlagged(c) ==
  /\ cpc[c] = "lock_deadline"
  /\ now - c_start_ts[c] > Timeout
  /\ c_exc' = [c_exc EXCEPT ![c] = "lock_timeout"]
  /\ c_inference_acquired' = [c_inference_acquired EXCEPT ![c] = TRUE]
  /\ cpc' = SetPc(c, "release_slot")
  /\ UNCHANGED <<now, inference_lock, state_lock, model, loads, busy_gpu_tasks,
                 last_used_ts, runtime_device, backend, fallback_reason,
                 c_start_ts, c_gpu_slot_acquired, c_model,
                 SettingsFrame, QTFrame>>
  /\ UNCHANGED <<last_acquire_ts, last_release_ts, c_entered_after, c_allowed>>

\* Variant that raises as soon as the timeout is reached, not exceeded.
LockTimeoutEarly(c) ==
  /\ cpc[c] = "lock_deadline"
  /\ now - c_start_ts[c] >= Timeout
  /\ c_exc' = [c_exc EXCEPT ![c] = "lock_timeout"]
  /\ cpc' = SetPc(c, "release_slot")
  /\ UNCHANGED <<now, inference_lock, state_lock, model, loads, busy_gpu_tasks,
                 last_used_ts, runtime_device, backend, fallback_reason,
                 c_start_ts, c_inference_acquired, c_gpu_slot_acquired, c_model,
                 SettingsFrame, QTFrame>>
  /\ UNCHANGED <<last_acquire_ts, last_release_ts, c_entered_after, c_allowed>>

\* after the failed acquire the clock is read:
\* (time.time() - start_ts) > timeout: raise TimeoutError
LockTimeout(c) ==
  /\ cpc[c] = "lock_deadline"
  /\ now - c_start_ts[c] > Timeout
  /\ c_exc' = [c_exc EXCEPT ![c] = "lock_timeout"]
  /\ cpc' = SetPc(c, "release_slot")
  /\ UNCHANGED <<now, inference_lock, state_lock, model, loads, busy_gpu_tasks,
                 last_used_ts, runtime_device, backend, fallback_reason,
                 c_start_ts, c_inference_acquired, c_gpu_slot_acquired, c_model,
                 SettingsFrame, QTFrame>>
  /\ UNCHANGED <<last_acquire_ts, last_release_ts, c_entered_after, c_allowed>>

\* the timeout has not passed: time.sleep(wait_interval), then the acquire
\* is tried again
LockSleep(c) ==
  /\ cpc[c] = "lock_deadline"
  /\ ~(now - c_start_ts[c] > Timeout)
  /\ cpc' = SetPc(c, "lock_wait")
  /\ UNCHANGED <<now, inference_lock, state_lock, model, loads, busy_gpu_tasks,
                 last_used_ts, runtime_device, backend, fallback_reason,
                 c_start_ts, c_inference_acquired, c_gpu_slot_acquired, c_model,
                 c_exc, SettingsFrame, QTFrame>>
  /\ UNCHANGED <<last_acquire_ts, last_release_ts, c_entered_after, c_allowed>>

\* get_model() with the engine loaded: refresh last-used, return it
GetModelLoaded(c) ==
  /\ cpc[c] = "get_model"
  /\ state_lock = 0
  /\ model # 0
  /\ last_used_ts' = now
  /\ c_model' = [c_model EXCEPT ![c] = model]
  /\ cpc' = SetPc(c, "check_gate")
  /\ UNCHANGED <<now, inference_lock, state_lock, model, loads, busy_gpu_tasks,
                 runtime_device, backend, fallback_reason, c_start_ts,
                 c_inference_acquired, c_gpu_slot_acquired, c_exc, SettingsFrame, QTFrame>>
  /\ last_acquire_ts' = IF keep_history THEN now ELSE last_acquire_ts
  /\ UNCHANGED <<last_release_ts, c_entered_after, c_allowed>>

\* Variant of get_model() that does not wait for _lock.
LoadConstructUnguarded(c, outcome) ==
  /\ cpc[c] = "get_model"
  /\ model = 0
  /\ loads < MaxLoads
  /\ outcome \in LoadOutcomes(backend_setting)
  /\ IF outcome = "fail"
       THEN /\ runtime_device' = "unknown"
            /\ fallback_reason' = "load failed"
            /\ c_exc' = [c_exc EXCEPT ![c] = "load_error"]
            /\ cpc' = SetPc(c, "release_slot")
            /\ UNCHANGED <<state_lock, backend>>
       ELSE /\ state_lock' = c
            /\ backend' = IF outcome = "vllm" THEN "vllm" ELSE "hf"
            /\ fallback_reason' = IF outcome = "fallback_hf"
                                    THEN "vLLM init failed" ELSE fallback_reason
            /\ cpc' = SetPc(c, "load_finish")
            /\ UNCHANGED <<runtime_device, c_exc>>
  /\ UNCHANGED <<now, inference_lock, model, loads, busy_gpu_tasks,
                 last_used_ts, c_start_ts, c_inference_acquired,
                 c_gpu_slot_acquired, c_model, SettingsFrame,
                 QTFrame>>
  /\ UNCHANGED <<last_acquire_ts, last_release_ts, c_entered_after, c_allowed>>

\* get_model() with no engine: take _lock and run _load_impl up to the
\* assignment of self.backend, or to the failure of the constructor.
LoadConstruct(c, outcome) ==
  /\ cpc[c] = "get_model"
  /\ state_lock = 0
  /\ model = 0
  /\ loads < MaxLoads
  /\ outcome \in LoadOutcomes(backend_setting)
  /\ IF outcome = "fail"
       THEN /\ runtime_device' = "unknown"
            /\ fallback_reason' = "load failed"
            /\ c_exc' = [c_exc EXCEPT ![c] = "load_error"]
            /\ cpc' = SetPc(c, "release_slot")
            /\ UNCHANGED <<state_lock, backend>>
       ELSE /\ state_lock' = c
            /\ backend' = IF outcome = "vllm" THEN "vllm" ELSE "hf"
            /\ fallback_reason' = IF outcome = "fallback_hf"
                                    THEN "vLLM init failed" ELSE fallback_reason
            /\ cpc' = SetPc(c, "load_finish")
            /\ UNCHANGED <<runtime_device, c_exc>>
  /\ UNCHANGED <<now, inference_lock, model, loads, busy_gpu_tasks,
                 last_used_ts, c_start_ts, c_inference_acquired,
                 c_gpu_slot_acquired, c_model, SettingsFrame,
                 QTFrame>>
  /\ UNCHANGED <<last_acquire_ts, last_release_ts, c_entered_after, c_allowed>>

\* Variant of get_model() that returns with _lock still held.
LoadFinishKeepsLock(c) ==
  /\ cpc[c] = "load_finish"
  /\ state_lock = c
  /\ runtime_device' = try_set_device(use_gpu)
  /\ loads' = loads + 1
  /\ model' = loads + 1
  /\ last_used_ts' = now
  /\ c_model' = [c_model EXCEPT ![c] = loads + 1]
  /\ state_lock' = state_lock
  /\ cpc' = SetPc(c, "check_gate")
  /\ UNCHANGED <<now, inference_lock, busy_gpu_tasks, backend, fallback_reason,
                 c_start_ts, c_inference_acquired, c_gpu_slot_acquired, c_exc,
                 SettingsFrame, QTFrame>>
  /\ last_acquire_ts' = IF keep_history THEN now ELSE last_acquire_ts
  /\ UNCHANGED <<last_release_ts, c_entered_after, c_allowed>>

\* the rest of _load_impl and get_model: runtime_device, _model,
\* _last_used_ts; _lock is released
LoadFinish(c) ==
  /\ cpc[c] = "load_finish"
  /\ state_lock = c
  /\ runtime_device' = try_set_device(use_gpu)
  /\ loads' = loads + 1
  /\ model' = loads + 1
  /\ last_used_ts' = now
  /\ c_model' = [c_model EXCEPT ![c] = loads + 1]
  /\ state_lock' = 0
  /\ cpc' = SetPc(c, "check_gate")
  /\ UNCHANGED <<now, inference_lock, busy_gpu_tasks, backend, fallback_reason,
                 c_start_ts, c_inference_acquired, c_gpu_slot_acquired, c_exc,
                 SettingsFrame, QTFrame>>
  /\ last_acquire_ts' = IF keep_history THEN now ELSE last_acquire_ts
  /\ UNCHANGED <<last_release_ts, c_entered_after, c_allowed>>

\* if runtime_device == "gpu" and self.backend != "vllm":
CheckGate(c) ==
  /\ cpc[c] = "check_gate"
  /\ cpc' = SetPc(c, IF runtime_device = "gpu" /\ backend # "vllm"
                       THEN "gate" ELSE "body")
  /\ UNCHANGED <<now, inference_lock, state_lock, model, loads, busy_gpu_tasks,
                 last_used_ts, runtime_device, backend, fallback_reason,
                 c_start_ts, c_inference_acquired, c_gpu_slot_acquired, c_model,
                 c_exc, SettingsFrame, QTFrame>>
  /\ UNCHANGED <<last_acquire_ts, last_release_ts, c_entered_after, c_allowed>>

\* allowed = self._allowed_gpu_concurrency() for the free memory it reads
AllowedNow(mem) ==
  allowed_gpu_concurrency(dynamic_workers, runtime_device, mem, max_workers)

\* The gate admits: memory is available and the counter is below the
\* allowed concurrency, both evaluated under _lock.  _check_memory_available
\* and _allowed_gpu_concurrency each call get_gpu_memory_gb; every pair of
\* their results (refused, or passed with allowed 1, 2 or more) is the
\* result of one reading in GpuFreeReadings, so one reading stands for both.
Admits(pressure, mem) ==
  /\ check_memory_available(pressure, runtime_device, mem)
  /\ busy_gpu_tasks <
       allowed_gpu_concurrency(dynamic_workers, runtime_device, mem, max_workers)

\* with self._lock: the gate admits; the counter goes up, break
GateAdmit(c, pressure, mem) ==
  /\ cpc[c] = "gate"
  /\ state_lock = 0
  /\ Admits(pressure, mem)
  /\ busy_gpu_tasks' = busy_gpu_tasks + 1
  /\ c_gpu_slot_acquired' = [c_gpu_slot_acquired EXCEPT ![c] = TRUE]
  /\ cpc' = SetPc(c, "body")
  /\ UNCHANGED <<now, inference_lock, state_lock, model, loads,
                 last_used_ts, runtime_device, backend, fallback_reason,
                 c_start_ts, c_inference_acquired, c_model,
                 c_exc, SettingsFrame, QTFrame>>
  /\ c_allowed' = [c_allowed EXCEPT ![c] = AllowedNow(mem)]
  /\ UNCHANGED <<last_acquire_ts, last_release_ts, c_entered_after>>

\* with self._lock: the gate does not admit; _lock is left
GateBusy(c, pressure, mem) ==
  /\ cpc[c] = "gate"
  /\ state_lock = 0
  /\ ~Admits(pressure, mem)
  /\ cpc' = SetPc(c, "gate_deadline")
  /\ UNCHANGED <<now, inference_lock, state_lock, model, loads, busy_gpu_tasks,
                 last_used_ts, runtime_device, backend, fallback_reason,
                 c_start_ts, c_inference_acquired, c_gpu_slot_acquired, c_model,
                 c_exc, SettingsFrame, QTFrame>>
  /\ UNCHANGED <<last_acquire_ts, last_release_ts, c_entered_after, c_allowed>>

\* after the refused poll the clock is read:
\* (time.time() - start_ts) > timeout: raise TimeoutError
GateTimeout(c) ==
  /\ cpc[c] = "gate_deadline"
  /\ now - c_start_ts[c] > Timeout
  /\ c_exc' = [c_exc EXCEPT ![c] = "gate_timeout"]
  /\ cpc' = SetPc(c, "release_slot")
  /\ UNCHANGED <<now, inference_lock, state_lock, model, loads, busy_gpu_tasks,
                 last_used_ts, runtime_device, backend, fallback_reason,
                 c_start_ts, c_inference_acquired, c_gpu_slot_acquired, c_model,
                 SettingsFrame, QTFrame>>
  /\ UNCHANGED <<last_acquire_ts, last_release_ts, c_entered_after, c_allowed>>

\* the timeout has not passed: time.sleep(wait_interval), then the gate is
\* polled again
GateSleep(c) ==
  /\ cpc[c] = "gate_deadline"
  /\ ~(now - c_start_ts[c] > Timeout)
  /\ cpc' = SetPc(c, "gate")
  /\ UNCHANGED <<now, inference_lock, state_lock, model, loads, busy_gpu_tasks,
                 last_used_ts, runtime_device, backend, fallback_reason,
                 c_start_ts, c_inference_acquired, c_gpu_slot_acquired, c_model,
                 c_exc, SettingsFrame, QTFrame>>
  /\ UNCHANGED <<last_acquire_ts, last_release_ts, c_entered_after, c_allowed>>

\* yield model: the body of the with statement returns or raises
BodyEnds(c, how) ==
  /\ cpc[c] = "body"
  /\ how \in {"ok", "body_error"}
  /\ c_exc' = [c_exc EXCEPT ![c] = how]
  /\ cpc' = SetPc(c, "release_slot")
  /\ UNCHANGED <<now, inference_lock, state_lock, model, loads, busy_gpu_tasks,
                 last_used_ts, runtime_device, backend, fallback_reason,
                 c_start_ts, c_inference_acquired, c_gpu_slot_acquired, c_model,
                 SettingsFrame, QTFrame>>
  /\ c_allowed' = [c_allowed EXCEPT ![c] = 0]
  /\ UNCHANGED <<last_acquire_ts, last_release_ts, c_entered_after>>

\* finally: if gpu_slot_acquired: with self._lock: counter down, last-used
ReleaseSlot(c) ==
  /\ cpc[c] = "release_slot"
  /\ IF c_gpu_slot_acquired[c]
       THEN /\ state_lock = 0
            /\ busy_gpu_tasks' = Max(0, busy_gpu_tasks - 1)
            /\ last_used_ts' = now
            /\ c_gpu_slot_acquired' = [c_gpu_slot_acquired EXCEPT ![c] = FALSE]
       ELSE UNCHANGED <<busy_gpu_tasks, last_used_ts, c_gpu_slot_acquired>>
  /\ cpc' = SetPc(c, "release_lock")
  /\ UNCHANGED <<now, inference_lock, state_lock, model, loads,
                 runtime_device, backend, fallback_reason,
                 c_start_ts, c_inference_acquired, c_model,
                 c_exc, SettingsFrame, QTFrame>>
  /\ last_release_ts' = IF keep_history /\ c_gpu_slot_acquired[c]
                          THEN now ELSE last_release_ts
  /\ UNCHANGED <<last_acquire_ts, c_entered_after, c_allowed>>

\* finally: if inference_acquired: self._inference_lock.release()
ReleaseLock(c) ==
  /\ cpc[c] = "release_lock"
  /\ IF c_inference_acquired[c]
       THEN /\ inference_lock' = FALSE
            /\ c_inference_acquired' = [c_inference_acquired EXCEPT ![c] = FALSE]
       ELSE UNCHANGED <<inference_lock, c_inference_acquired>>
  /\ cpc' = SetPc(c, "idle")
  /\ c_start_ts' = [c_start_ts EXCEPT ![c] = 0]
  /\ c_model' = [c_model EXCEPT ![c] = 0]
  /\ UNCHANGED <<now, state_lock, model, loads, busy_gpu_tasks,
                 last_used_ts, runtime_device, backend, fallback_reason,
                 c_gpu_slot_acquired,
                 c_exc, SettingsFrame, QTFrame>>
  /\ c_entered_after' = [c_entered_after EXCEPT ![c] = 0]
  /\ UNCHANGED <<last_acquire_ts, last_release_ts, c_allowed>>

\* ModelManager._idle_watcher: one tick that finds the engine idle
IdleUnload ==
  /\ state_lock = 0
  /\ model # 0
  /\ busy_gpu_tasks = 0
  /\ now - last_used_ts >= IdleUnloadSeconds
  /\ model' = 0
  /\ UNCHANGED <<now, inference_lock, state_lock, loads, busy_gpu_tasks,
                 last_used_ts, runtime_device, backend, fallback_reason, cpc,
                 c_start_ts, c_inference_acquired, c_gpu_slot_acquired, c_model,
                 c_exc, SettingsFrame, QTFrame>>
  /\ UNCHANGED <<last_acquire_ts, last_release_ts, c_entered_after, c_allowed>>

\* ModelManager.unload(): with self._lock: self._model = None
Unload ==
  /\ state_lock = 0
  /\ model # 0
  /\ model' = 0
  /\ UNCHANGED <<now, inference_lock, state_lock, loads, busy_gpu_tasks,
                 last_used_ts, runtime_device, backend, fallback_reason, cpc,
                 c_start_ts, c_inference_acquired, c_gpu_slot_acquired, c_model,
                 c_exc, SettingsFrame, QTFrame>>
  /\ UNCHANGED <<last_acquire_ts, last_release_ts, c_entered_after, c_allowed>>

(***************************************************************************)
(* ModelManager.gpu_slot(timeout): the gate without the inference lock,    *)
(* without get_model() and without the memory check.                       *)
(***************************************************************************)
\* if runtime_device != "gpu": yield at once; else start_ts, acquired = False
SlotEnter(c) ==
  /\ cpc[c] = "idle"
  /\ cpc' = SetPc(c, IF runtime_device # "gpu" THEN "slot_body_cpu"
                     ELSE "slot_wait")
  /\ c_start_ts' = [c_start_ts EXCEPT ![c] = now]
  /\ c_exc' = [c_exc EXCEPT ![c] = NoText]
  /\ UNCHANGED <<now, c_model, inference_lock, state_lock, model, loads,
                 busy_gpu_tasks, last_used_ts, runtime_device, backend,
                 fallback_reason, c_inference_acquired, c_gpu_slot_acquired,
                 SettingsFrame, QTFrame>>
  /\ UNCHANGED <<last_acquire_ts, last_release_ts, c_entered_after, c_allowed>>

\* with self._lock: the counter is below the allowed concurrency
SlotAdmit(c, mem) ==
  /\ cpc[c] = "slot_wait"
  /\ state_lock = 0
  /\ busy_gpu_tasks <
       allowed_gpu_concurrency(dynamic_workers, runtime_device, mem, max_workers)
  /\ busy_gpu_tasks' = busy_gpu_tasks + 1
  /\ c_gpu_slot_acquired' = [c_gpu_slot_acquired EXCEPT ![c] = TRUE]
  /\ cpc' = SetPc(c, "slot_body")
  /\ UNCHANGED <<now, inference_lock, state_lock, model, loads,
                 last_used_ts, runtime_device, backend, fallback_reason,
                 c_start_ts, c_inference_acquired, c_model,
                 c_exc, SettingsFrame, QTFrame>>
  /\ c_allowed' = [c_allowed EXCEPT ![c] = AllowedNow(mem)]
  /\ UNCHANGED <<last_acquire_ts, last_release_ts, c_entered_after>>

\* with self._lock: no slot is free; _lock is left
SlotBusy(c, mem) ==
  /\ cpc[c] = "slot_wait"
  /\ state_lock = 0
  /\ ~(busy_gpu_tasks <
         allowed_gpu_concurrency(dynamic_workers, runtime_device, mem, max_workers))
  /\ cpc' = SetPc(c, "slot_deadline")
  /\ UNCHANGED <<now, inference_lock, state_lock, model, loads, busy_gpu_tasks,
                 last_used_ts, runtime_device, backend, fallback_reason,
                 c_start_ts, c_inference_acquired, c_gpu_slot_acquired, c_model,
                 c_exc, SettingsFrame, QTFrame>>
  /\ UNCHANGED <<last_acquire_ts, last_release_ts, c_entered_after, c_allowed>>

\* after the refused poll the clock is read:
\* (time.time() - start_ts) > timeout: raise TimeoutError
SlotTimeout(c) ==
  /\ cpc[c] = "slot_deadline"
  /\ now - c_start_ts[c] > Timeout
  /\ c_exc' = [c_exc EXCEPT ![c] = "gate_timeout"]
  /\ cpc' = SetPc(c, "slot_exit")
  /\ UNCHANGED <<now, inference_lock, state_lock, model, loads, busy_gpu_tasks,
                 last_used_ts, runtime_device, backend, fallback_reason,
                 c_start_ts, c_inference_acquired, c_gpu_slot_acquired, c_model,
                 SettingsFrame, QTFrame>>
  /\ UNCHANGED <<last_acquire_ts, last_release_ts, c_entered_after, c_allowed>>

\* the timeout has not passed: time.sleep(wait_interval), then the slot is
\* polled again
SlotSleep(c) ==
  /\ cpc[c] = "slot_deadline"
  /\ ~(now - c_start_ts[c] > Timeout)
  /\ cpc' = SetPc(c, "slot_wait")
  /\ UNCHANGED <<now, inference_lock, state_lock, model, loads, busy_gpu_tasks,
                 last_used_ts, runtime_device, backend, fallback_reason,
                 c_start_ts, c_inference_acquired, c_gpu_slot_acquired, c_model,
                 c_exc, SettingsFrame, QTFrame>>
  /\ UNCHANGED <<last_acquire_ts, last_release_ts, c_entered_after, c_allowed>>

\* yield: the body of the with statement returns or raises (the generator
\* catches nothing, so either way the finally clause is next); off the GPU
\* the generator ends there
SlotBodyEnds(c) ==
  /\ cpc[c] \in {"slot_body", "slot_body_cpu"}
  /\ cpc' = SetPc(c, IF cpc[c] = "slot_body" THEN "slot_exit" ELSE "idle")
  /\ c_start_ts' = IF cpc[c] = "slot_body" THEN c_start_ts
                   ELSE [c_start_ts EXCEPT ![c] = 0]
  /\ UNCHANGED <<now, inference_lock, state_lock, model, loads, busy_gpu_tasks,
                 last_used_ts, runtime_device, backend, fallback_reason,
                 c_inference_acquired, c_gpu_slot_acquired, c_model, c_exc,
                 SettingsFrame, QTFrame>>
  /\ c_allowed' = [c_allowed EXCEPT ![c] = 0]
  /\ UNCHANGED <<last_acquire_ts, last_release_ts, c_entered_after>>

\* finally: with self._lock: the counter down when a slot was acquired;
\* _last_used_ts = time.time() in either case
SlotExit(c) ==
  /\ cpc[c] = "slot_exit"
  /\ state_lock = 0
  /\ busy_gpu_tasks' = IF c_gpu_slot_acquired[c]
                         THEN Max(0, busy_gpu_tasks - 1) ELSE busy_gpu_tasks
  /\ c_gpu_slot_acquired' = [c_gpu_slot_acquired EXCEPT ![c] = FALSE]
  /\ last_used_ts' = now
  /\ last_release_ts' = IF keep_history THEN now ELSE last_release_ts
  /\ cpc' = SetPc(c, "idle")
  /\ c_start_ts' = [c_start_ts EXCEPT ![c] = 0]
  /\ UNCHANGED <<now, inference_lock, state_lock, model, loads,
                 runtime_device, backend, fallback_reason,
                 c_inference_acquired, c_model, c_exc, SettingsFrame, QTFrame>>
  /\ UNCHANGED <<last_acquire_ts, c_entered_after, c_allowed>>

\* The steps of one gpu_slot() call.
SlotStep(c) ==
  \/ SlotEnter(c)
  \/ \E mem \in GpuFreeReadings : SlotAdmit(c, mem)
  \/ \E mem \in GpuFreeReadings : SlotBusy(c, mem)
  \/ SlotTimeout(c)
  \/ SlotSleep(c)
  \/ SlotBodyEnds(c)
  \/ SlotExit(c)

CallerStep(c) ==
  \/ Enter(c)
  \/ CheckBackend(c)
  \/ LockAcquire(c)
  \/ LockBusy(c)
  \/ LockTimeout(c)
  \/ LockSleep(c)
  \/ GetModelLoaded(c)
  \/ \E outcome \in {"vllm", "fallback_hf", "hf", "fail"} : LoadConstruct(c, outcome)
  \/ LoadFinish(c)
  \/ CheckGate(c)
  \/ \E pressure \in BOOLEAN, mem \in GpuFreeReadings : GateAdmit(c, pressure, mem)
  \/ \E pressure \in BOOLEAN, mem \in GpuFreeReadings : GateBusy(c, pressure, mem)
  \/ GateTimeout(c)
  \/ GateSleep(c)
  \/ \E how \in {"ok", "body_error"} : BodyEnds(c, how)
  \/ ReleaseSlot(c)
  \/ ReleaseLock(c)
  \/ SlotStep(c)

ManagerInit ==
  /\ now = 0
  /\ max_queue_size = 0
  /\ max_workers \in {0, MaxWorkers}
  /\ auto_publish = FALSE
  /\ QueueFresh
  /\ backend_setting \in {"hf", "vllm"}
  /\ dynamic_workers \in BOOLEAN
  /\ use_gpu \in BOOLEAN
  /\ ManagerFresh
  /\ TokenFresh
  /\ GateCalcFresh
  /\ StorageFresh
  /\ ExtraFresh
  /\ BatchFresh

ManagerNext ==
  \/ Tick
  \/ \E c \in Callers : CallerStep(c)
  \/ IdleUnload
  \/ Unload

ManagerSpec == ManagerInit /\ [][ManagerNext]_vars

\* The same manager with the history variables recorded, for the settings
\* under which the allowed concurrency follows the free memory.
ManagerHistInit ==
  /\ now = 0
  /\ max_queue_size = 0
  /\ max_workers = MaxWorkers
  /\ auto_publish = FALSE
  /\ QueueFresh
  /\ backend_setting \in {"hf", "vllm"}
  /\ dynamic_workers = TRUE
  /\ use_gpu \in BOOLEAN
  /\ ManagerConstructed
  /\ keep_history = TRUE
  /\ TokenFresh
  /\ GateCalcFresh
  /\ StorageFresh
  /\ ExtraFresh
  /\ BatchFresh

ManagerHistSpec == ManagerHistInit /\ [][ManagerNext]_vars

(***************************************************************************)
(* Properties of the ModelManager.                                         *)
(***************************************************************************)
InBody == {c \in Callers : cpc[c] = "body"}
HoldingSlot == {c \in Callers : c_gpu_slot_acquired[c]}
HoldingLock == {c \in Callers : c_inference_acquired[c]}

\* C3: with settings.backend = hf at most one caller is inside the body of
\* an inference_context at any time.
C3_HfMutualExclusion ==
  backend_setting = "hf" => Cardinality(InBody) <= 1

\* hf: one caller is in the body while another waits for the inference lock.
C3_Witness ==
  /\ backend_setting = "hf"
  /\ \E c1, c2 \in Callers : cpc[c1] = "body" /\ cpc[c2] = "lock_wait"

\* A step that changes the in-flight counter moves it by one; a step up is
\* the admitting poll of one caller, made under _lock (no other thread is
\* inside it), and the counter was strictly below the value that this poll
\* computed with _allowed_gpu_concurrency() and holds in its local `allowed`.
C4_IncrementStep ==
  busy_gpu_tasks' # busy_gpu_tasks =>
    \/ busy_gpu_tasks' = busy_gpu_tasks - 1
    \/ /\ busy_gpu_tasks' = busy_gpu_tasks + 1
       /\ state_lock = 0
       /\ \E c \in Callers :
            /\ cpc[c] \in {"gate", "slot_wait"}
            /\ cpc'[c] \in {"body", "slot_body"}
            /\ c_gpu_slot_acquired'[c] /\ ~c_gpu_slot_acquired[c]
            /\ \E mem \in GpuFreeReadings : c_allowed'[c] = AllowedNow(mem)
            /\ busy_gpu_tasks < c_allowed'[c]

\* C4: the in-flight counter stays within 0..max(1, max_workers), and each
\* increment happens with the counter strictly below the allowed
\* concurrency computed under the same lock by the poll that increments.
C4_BusyWithinAllowed ==
  /\ [](busy_gpu_tasks >= 0 /\ busy_gpu_tasks <= Max(1, max_workers))
  /\ [][C4_IncrementStep]_vars

\* Two tasks are in flight on the GPU at once, the second admitted by a
\* poll that computed an allowed concurrency of two.
C4_Witness ==
  /\ busy_gpu_tasks = 2
  /\ \E c \in Callers :
       cpc[c] = "body" /\ c_gpu_slot_acquired[c] /\ c_allowed[c] = 2

\* C7: the in-flight counter is exactly the number of callers that hold a
\* slot (inside an inference_context or a gpu_slot block) and the inference lock is held exactly when one caller acquired it
\* and has not released it; a caller that has left the context, however it
\* left, holds neither.
C7_ReleaseOnAllPaths ==
  /\ busy_gpu_tasks = Cardinality(HoldingSlot)
  /\ inference_lock <=> HoldingLock # {}
  /\ Cardinality(HoldingLock) <= 1
  /\ \A c \in Callers :
       /\ c_gpu_slot_acquired[c] =>
            cpc[c] \in {"body", "release_slot", "slot_body", "slot_exit"}
       /\ c_inference_acquired[c] =>
            cpc[c] \notin {"idle", "check_backend", "lock_wait", "lock_deadline"}
       /\ cpc[c] = "idle" =>
            ~c_gpu_slot_acquired[c] /\ ~c_inference_acquired[c]

\* One caller has left on a lock timeout while another, holding the lock and
\* a slot, is in the body.
C7_Witness ==
  \E c1, c2 \in Callers :
    /\ cpc[c1] = "idle" /\ c_exc[c1] = "lock_timeout"
    /\ cpc[c2] = "body" /\ c_gpu_slot_acquired[c2] /\ c_inference_acquired[c2]
    /\ inference_lock /\ busy_gpu_tasks = 1

\* C14: for a caller polling the GPU gate (no other thread inside _lock) and
\* any free-memory reading: with no system-memory pressure and the in-flight
\* count below the allowed concurrency the poll admits it; in particular with
\* zero in flight and no pressure it is admitted whatever the reading; with
\* the count equal to the allowed concurrency the poll does not admit it.
C14_GateAdmission ==
  \A c \in Callers :
    (cpc[c] = "gate" /\ state_lock = 0) =>
      \A mem \in GpuFreeReadings :
        /\ busy_gpu_tasks < AllowedNow(mem) => ENABLED GateAdmit(c, FALSE, mem)
        /\ busy_gpu_tasks = 0 => ENABLED GateAdmit(c, FALSE, mem)
        /\ busy_gpu_tasks = AllowedNow(mem) =>
             \A pressure \in BOOLEAN : ~ENABLED GateAdmit(c, pressure, mem)

\* A watcher tick in this state unsets the engine handle.
TickUnloads == ENABLED (IdleUnload /\ model' = 0)

\* A caller that is yielded an engine is yielded one built after the last
\* unload that preceded its call.
YieldsNewEngine ==
  \A c \in Callers : cpc[c] = "body" => c_model[c] > c_entered_after[c]

\* C15 as stated: with the handle set, the in-flight count zero and no
\* acquisition for at least the idle threshold, a watcher tick (taking _lock)
\* unsets the handle; a call made after an unload is yielded a newly built
\* engine.
C15_UnloadAfterNoAcquisition ==
  /\ (/\ model # 0
      /\ busy_gpu_tasks = 0
      /\ state_lock = 0
      /\ now - last_acquire_ts >= IdleUnloadSeconds) => TickUnloads
  /\ YieldsNewEngine

(***************************************************************************)
(* TokenManager                                                            *)
(***************************************************************************)
QMFrame == <<qvars, mvars, xvars, yvars>>

\* Token(...) as create_token builds it.  backend, task_id, kind, object_key
\* and file_path are carried along unchanged and are left out.
NewToken(tok, max_downloads, expire_seconds, t) ==
  [token |-> tok, max_downloads |-> max_downloads, remain |-> max_downloads,
   expire_at |-> t + Max(1, expire_seconds)]

\* json.dumps(self._data): one entry per key with the fields of the token.
json_dumps(data) ==
  {<<k, data[k].token, data[k].max_downloads, data[k].remain, data[k].expire_at>> :
     k \in DOMAIN data}

\* json.loads(text): the table the entries describe.
json_loads(text) ==
  [k \in {e[1] : e \in text} |->
     LET e == CHOOSE x \in text : x[1] = k
     IN [token |-> e[2], max_downloads |-> e[3], remain |-> e[4],
         expire_at |-> e[5]]]

\* TokenManager._save: write_text opens the store file for writing, which
\* empties it, and then writes the whole table.  A store file is the text
\* that reached it and whether the write was completed.
token_save(data) == <<[text |-> json_dumps(data), complete |-> TRUE]>>

\* The store file of a process killed inside write_text: emptied or cut
\* short, no JSON document.
TruncatedStore == <<[text |-> {}, complete |-> FALSE]>>

\* TokenManager._load: the table read from the store file; {} without a
\* file and {} when json.loads raises on it (except Exception).
token_load(file) ==
  IF file = << >> THEN << >>
  ELSE IF ~file[1].complete THEN << >>
  ELSE json_loads(file[1].text)

\* self._data[tok] = t.to_dict()
TableSet(data, tok, rec) ==
  [k \in DOMAIN data \cup {tok} |-> IF k = tok THEN rec ELSE data[k]]

\* Variant that leaves the entry in the table.
TablePopKeeps(data, tok) == data

\* self._data.pop(token, None)
TablePop(data, tok) == [k \in DOMAIN data \ {tok} |-> data[k]]

\* Variant of the lock that never makes a thread wait.
token_lock_free_always(holder) == TRUE

\* with self._lock: the lock can be taken when no other thread holds it
token_lock_free(holder) == holder = 0

\* Variant whose exhaustion test is remain < 0.
consume_outcome_off_by_one(t, time) ==
  IF time > t.expire_at THEN "expired"
  ELSE IF t.remain < 0 THEN "exhausted"
  ELSE "ok"

\* The three ways consume() goes on once the token is found.
consume_outcome(t, time) ==
  IF time > t.expire_at THEN "expired"
  ELSE IF t.remain <= 0 THEN "exhausted"
  ELSE "ok"

\* The token strings of create_token calls that have not returned yet.
Pending == {t_arg[th] : th \in {x \in Consumers : tpc[x] = "insert"}}

\* TokenManager.create_token, up to the lock: tok = secrets.token_urlsafe(24)
\* (a string not drawn before) and t = Token(...) with
\* expire_at = time.time() + max(1, expire_seconds)
CreateToken(th, tok, max_downloads, expire_seconds) ==
  /\ tpc[th] = "idle"
  /\ tok \in Tokens
  /\ tok \notin DOMAIN t_issued \cup Pending
  /\ \A k \in Tokens : k < tok => k \in DOMAIN t_issued \cup Pending
  /\ tpc' = [tpc EXCEPT ![th] = "insert"]
  /\ t_arg' = [t_arg EXCEPT ![th] = tok]
  /\ t_local' = [t_local EXCEPT ![th] =
                   <<NewToken(tok, max_downloads, expire_seconds, now)>>]
  /\ t_ttl' = TableSet(t_ttl, tok, [ttl |-> expire_seconds, at |-> now])
  /\ UNCHANGED <<now, t_data, t_file, t_lock, t_issued, t_results, t_restarts,
                 QMFrame>>

\* with self._lock: self._data[tok] = t.to_dict(); self._save(); return t
CreateInsert(th) ==
  /\ tpc[th] = "insert"
  /\ token_lock_free(t_lock)
  /\ LET tok == t_arg[th]
         t == t_local[th][1]
     IN /\ t_data' = TableSet(t_data, tok, t)
        /\ t_file' = token_save(TableSet(t_data, tok, t))
        /\ t_issued' = TableSet(t_issued, tok, t)
  /\ tpc' = [tpc EXCEPT ![th] = "idle"]
  /\ t_arg' = [t_arg EXCEPT ![th] = 0]
  /\ t_local' = [t_local EXCEPT ![th] = << >>]
  /\ UNCHANGED <<now, t_lock, t_results, t_ttl, t_restarts, QMFrame>>

\* History of the consume() calls on issued tokens: the remaining uses
\* returned (NoResult for None), whether the token's expiry time had not
\* passed, and whether another thread was waiting for the lock with the
\* same token.
Record(th, tok, res) ==
  IF tok \in DOMAIN t_issued
    THEN [t_results EXCEPT ![tok] = Append(@,
            [res |-> res, live |-> now <= t_issued[tok].expire_at,
             epoch |-> t_restarts,
             contended |-> \E o \in Consumers :
                              o # th /\ tpc[o] = "acquire" /\ t_arg[o] = tok])]
    ELSE t_results

\* a thread calls consume(token)
ConsumeCall(th, tok) ==
  /\ tpc[th] = "idle"
  /\ tok \in Tokens
  /\ Len(t_results[tok]) < MaxConsumes
  /\ tpc' = [tpc EXCEPT ![th] = "acquire"]
  /\ t_arg' = [t_arg EXCEPT ![th] = tok]
  /\ UNCHANGED <<now, t_data, t_file, t_lock, t_local, t_issued, t_results,
                 t_ttl, t_restarts, QMFrame>>

\* with self._lock:
ConsumeAcquire(th) ==
  /\ tpc[th] = "acquire"
  /\ token_lock_free(t_lock)
  /\ t_lock' = th
  /\ tpc' = [tpc EXCEPT ![th] = "read"]
  /\ UNCHANGED <<now, t_data, t_file, t_arg, t_local, t_issued, t_results,
                 t_ttl, t_restarts, QMFrame>>

\* raw = self._data.get(token); if not raw: return None; t = Token(**raw)
ConsumeRead(th) ==
  /\ tpc[th] = "read"
  /\ IF t_arg[th] \in DOMAIN t_data
       THEN /\ t_local' = [t_local EXCEPT ![th] = <<t_data[t_arg[th]]>>]
            /\ tpc' = [tpc EXCEPT ![th] = "decide"]
            /\ UNCHANGED <<t_lock, t_results, t_arg>>
       ELSE /\ t_results' = Record(th, t_arg[th], NoResult)
            /\ t_lock' = 0
            /\ tpc' = [tpc EXCEPT ![th] = "idle"]
            /\ t_arg' = [t_arg EXCEPT ![th] = 0]
            /\ UNCHANGED t_local
  /\ UNCHANGED <<now, t_data, t_file, t_issued, t_ttl, t_restarts, QMFrame>>

\* the expiry test, the exhaustion test, or the decrement; _save(); return
ConsumeDecide(th) ==
  /\ tpc[th] = "decide"
  /\ LET tok == t_arg[th]
         t == t_local[th][1]
         used == [t EXCEPT !.remain = t.remain - 1]
     IN IF consume_outcome(t, now) = "ok"
          THEN /\ t_data' = TableSet(t_data, tok, used)
               /\ t_file' = token_save(TableSet(t_data, tok, used))
               /\ t_results' = Record(th, tok, Returned(used.remain))
          ELSE /\ t_data' = TablePop(t_data, tok)
               /\ t_file' = token_save(TablePop(t_data, tok))
               /\ t_results' = Record(th, tok, NoResult)
  /\ t_lock' = 0
  /\ tpc' = [tpc EXCEPT ![th] = "idle"]
  /\ t_arg' = [t_arg EXCEPT ![th] = 0]
  /\ t_local' = [t_local EXCEPT ![th] = << >>]
  /\ UNCHANGED <<now, t_issued, t_ttl, t_restarts, QMFrame>>

\* The process ends, whatever its threads are doing (none of them inside
\* _save), and a new TokenManager is constructed on the same store file:
\* __init__ and _load.
Restart ==
  /\ t_restarts < MaxRestarts
  /\ t_restarts' = t_restarts + 1
  /\ t_data' = token_load(t_file)
  /\ t_lock' = 0
  /\ tpc' = [th \in Consumers |-> "idle"]
  /\ t_arg' = [th \in Consumers |-> 0]
  /\ t_local' = [th \in Consumers |-> << >>]
  /\ UNCHANGED <<now, t_file, t_issued, t_results, t_ttl, QMFrame>>

\* The process ends while thread th, holding _lock in consume() or in
\* create_token(), is inside _save: write_text has emptied the store file
\* and not completed the new text.  The new TokenManager reads that file.
RestartInSave(th) ==
  /\ t_restarts < MaxRestarts
  /\ \/ tpc[th] = "decide"
     \/ tpc[th] = "insert" /\ token_lock_free(t_lock)
  /\ t_restarts' = t_restarts + 1
  /\ t_file' = TruncatedStore
  /\ t_data' = token_load(TruncatedStore)
  /\ t_lock' = 0
  /\ tpc' = [x \in Consumers |-> "idle"]
  /\ t_arg' = [x \in Consumers |-> 0]
  /\ t_local' = [x \in Consumers |-> << >>]
  /\ UNCHANGED <<now, t_issued, t_results, t_ttl, QMFrame>>

TokenInit ==
  /\ now = 0
  /\ max_queue_size = 0
  /\ max_workers = 0
  /\ auto_publish = FALSE
  /\ QueueFresh
  /\ backend_setting = "hf"
  /\ dynamic_workers = TRUE
  /\ use_gpu = FALSE
  /\ ManagerFresh
  /\ TokenFresh
  /\ GateCalcFresh
  /\ StorageFresh
  /\ ExtraFresh
  /\ BatchFresh

TokenNext ==
  \/ Tick
  \/ \E th \in Consumers, tok \in Tokens, n \in 1..MaxDownloads, ttl \in 0..MaxTtl :
       CreateToken(th, tok, n, ttl)
  \/ \E th \in Consumers : CreateInsert(th)
  \/ \E th \in Consumers, tok \in Tokens : ConsumeCall(th, tok)
  \/ \E th \in Consumers : ConsumeAcquire(th)
  \/ \E th \in Consumers : ConsumeRead(th)
  \/ \E th \in Consumers : ConsumeDecide(th)

TokenSpec == TokenInit /\ [][TokenNext]_vars

\* The token store across a restart of the process, with one thread that
\* creates and consumes.
TokenRestartNext ==
  \/ Tick
  \/ \E tok \in Tokens, n \in 1..MaxDownloads, ttl \in 0..MaxTtl :
       CreateToken(1, tok, n, ttl)
  \/ CreateInsert(1)
  \/ \E tok \in Tokens : ConsumeCall(1, tok)
  \/ ConsumeAcquire(1)
  \/ ConsumeRead(1)
  \/ ConsumeDecide(1)
  \/ Restart
  \/ RestartInSave(1)

TokenRestartSpec == TokenInit /\ [][TokenRestartNext]_vars

(***************************************************************************)
(* Properties of the TokenManager.                                         *)
(***************************************************************************)
\* C5: for a token created with max_downloads = n, the consume() calls made
\* before its expiry return, in the order they are served, remain n-1, ...,
\* 0 for the first n and nothing for every later one.
C5_ExactlyNUses ==
  \A tok \in DOMAIN t_issued :
    \A i \in 1..Len(t_results[tok]) :
      t_results[tok][i].live =>
        t_results[tok][i].res =
          (IF i <= t_issued[tok].max_downloads
             THEN Returned(t_issued[tok].max_downloads - i) ELSE NoResult)

\* A token with two uses gave 1, then 0, then nothing; a single-use token
\* gave 0, then nothing.
C5_Witness ==
  \E a, b \in DOMAIN t_issued :
    /\ t_issued[a].max_downloads = 2
    /\ Len(t_results[a]) = 3
    /\ \A i \in 1..3 : t_results[a][i].live
    /\ t_results[a][1].res = Returned(1) /\ t_results[a][2].res = Returned(0)
    /\ t_results[a][3].res = NoResult
    /\ t_issued[b].max_downloads = 1
    /\ Len(t_results[b]) >= 2
    /\ t_results[b][1].live /\ t_results[b][2].live
    /\ t_results[b][1].res = Returned(0) /\ t_results[b][2].res = NoResult

Succeeded(tok) == {i \in 1..Len(t_results[tok]) : t_results[tok][i].res # NoResult}

\* C6: however consume() calls of several threads interleave, at most
\* max_downloads of the calls on a token succeed and no two of them return
\* the same remaining-uses value.
C6_NoDoubleSpend ==
  \A tok \in DOMAIN t_issued :
    /\ Cardinality(Succeeded(tok)) <= t_issued[tok].max_downloads
    /\ \A i, j \in Succeeded(tok) :
         i # j => t_results[tok][i].res # t_results[tok][j].res

\* Two threads raced for the last use of a token: one was served while the
\* other waited for the lock, and only the first got the token.
C6_Witness ==
  \E tok \in DOMAIN t_issued :
    /\ Len(t_results[tok]) >= 2
    /\ t_results[tok][1].contended
    /\ t_results[tok][1].res = Returned(0)
    /\ t_results[tok][2].res = NoResult
    /\ t_results[tok][2].live

\* C16 as stated: a consume() of a token created with a time-to-live of 0
\* seconds, or made after the token's expire_at, returns nothing, used or not.
C16_ZeroTtlOrExpiredRejected ==
  \A tok \in DOMAIN t_issued :
    \A i \in 1..Len(t_results[tok]) :
      (t_ttl[tok].ttl = 0 \/ ~t_results[tok][i].live)
        => t_results[tok][i].res = NoResult

\* remain and max_downloads of every entry of a token table.
RemainInBounds(table) ==
  \A tok \in DOMAIN table :
    0 <= table[tok].remain /\ table[tok].remain <= table[tok].max_downloads

\* C17: every token in the table and in the store file has
\* 0 <= remain <= max_downloads; a consume() that finds its token expired or
\* with remain 0 removes it from the table and from the file; a removed token
\* stays absent, and every later consume() of it returns nothing.
C17_RemainBoundsAndPurge ==
  /\ [](RemainInBounds(t_data) /\ RemainInBounds(token_load(t_file)))
  /\ [](\A tok \in DOMAIN t_issued :
          \A i, j \in 1..Len(t_results[tok]) :
            (i < j /\ t_results[tok][i].res = NoResult)
              => t_results[tok][j].res = NoResult)
  /\ [][\A th \in Consumers :
          (/\ tpc[th] = "decide"
           /\ tpc'[th] = "idle"
           /\ \/ now > t_local[th][1].expire_at
              \/ t_local[th][1].remain <= 0)
            => /\ t_arg[th] \notin DOMAIN t_data'
               /\ t_arg[th] \notin DOMAIN token_load(t_file')]_vars
  /\ [][\A tok \in DOMAIN t_issued :
          tok \notin DOMAIN t_data => tok \notin DOMAIN t_data']_vars

\* One token was purged on expiry with uses left, another on exhaustion, and
\* a further consume() of each found nothing.
C17_Witness ==
  \E a, b \in DOMAIN t_issued :
    /\ a \notin DOMAIN t_data /\ b \notin DOMAIN t_data
    /\ Len(t_results[a]) >= 2 /\ Len(t_results[b]) >= 3
    /\ ~t_results[a][1].live /\ t_results[a][2].res = NoResult
    /\ t_results[b][1].res = Returned(0)
    /\ t_results[b][2].live /\ t_results[b][2].res = NoResult
    /\ t_results[b][3].res = NoResult

\* A new TokenManager is constructed on the store file.
Restarts == t_restarts' # t_restarts

\* C18: whenever no call is in progress the store file decodes to the
\* in-memory table; a TokenManager constructed on the store file holds the
\* tokens of the table as it was when the last call returned, with the same
\* remaining counts; across a restart a consume() that was refused is
\* refused ever after and successive served calls return decreasing remain.
C18_StoreMatchesTable ==
  /\ []((\A th \in Consumers : tpc[th] = "idle") => token_load(t_file) = t_data)
  /\ [][Restarts => t_data' = t_data]_vars
  /\ [](\A tok \in DOMAIN t_issued :
          \A i, j \in 1..Len(t_results[tok]) :
            (i < j /\ t_results[tok][j].res # NoResult)
              => /\ t_results[tok][i].res # NoResult
                 /\ t_results[tok][j].res[1] < t_results[tok][i].res[1])

(***************************************************************************)
(* write_json(path, data) on the status file of one job, step by step, in  *)
(* a process that may be killed between any two steps, while delete_task   *)
(* removes the job root with shutil.rmtree, itself step by step.  The      *)
(* writers of one job's status (submit, then the worker that dequeued it)  *)
(* never overlap.                                                          *)
(***************************************************************************)
\* The status objects written for a job: Job.to_dict(), with the publish
\* info that the auto publish adds.  Two objects are equal when every field
\* is.
StatusObjects ==
  [status : {"queued", "processing", "succeeded", "failed"},
   published : BOOLEAN]

\* A file that holds the first n chunks of json.dump(data).
FileContent(data, n) == [data |-> data, chunks |-> n]

\* json.loads succeeds on the content of a file.
Parses(file) == file # << >> /\ file[1].chunks = NumChunks

\* The two names of the job root that write_json works on.
StatusNames == {"job_status.json", "job_status.json.tmp"}

\* os.scandir on the job root: the names found there.
scandir(target, named) ==
  {n \in StatusNames : \/ n = "job_status.json" /\ target # << >>
                       \/ n = "job_status.json.tmp" /\ named}

StorageFrame == <<now, qvars, mvars, tvars, gvars, bvars, yvars>>

\* save_status(paths, data) calls write_json(root / "job_status.json", data)
WriteJsonCall(data) ==
  /\ f_pc = "idle"
  /\ data \in StatusObjects
  /\ f_data' = <<data>>
  /\ f_pc' = "check"
  /\ UNCHANGED <<f_target, f_tmp, f_named, f_persisted, f_crashes, f_dir,
                 f_rm, StorageFrame>>

\* if path.exists(): existing = json.loads(...); if existing == data: return
\* (a file that does not parse is written over)
WriteJsonCheck ==
  /\ f_pc = "check"
  /\ IF Parses(f_target) /\ f_target[1].data = f_data[1]
       THEN f_pc' = "idle" /\ f_data' = << >>
       ELSE f_pc' = "mkdir" /\ UNCHANGED f_data
  /\ UNCHANGED <<f_target, f_tmp, f_named, f_persisted, f_crashes, f_dir,
                 f_rm, StorageFrame>>

\* path.parent.mkdir(parents=True, exist_ok=True)
WriteJsonMkdir ==
  /\ f_pc = "mkdir"
  /\ f_dir' = TRUE
  /\ f_pc' = "open"
  /\ UNCHANGED <<f_target, f_tmp, f_named, f_data, f_persisted, f_crashes,
                 f_rm, StorageFrame>>

\* Variant whose temporary path is the status file itself.
WriteJsonOpenInPlace ==
  /\ f_pc = "open"
  /\ IF f_dir
       THEN /\ f_tmp' = <<FileContent(f_data[1], 0)>>
            /\ f_named' = TRUE
            /\ f_target' = <<FileContent(f_data[1], 0)>>
            /\ f_pc' = "dump"
            /\ UNCHANGED f_data
       ELSE /\ f_pc' = "idle"
            /\ f_data' = << >>
            /\ UNCHANGED <<f_tmp, f_named, f_target>>
  /\ UNCHANGED <<f_persisted, f_crashes, f_dir, f_rm, StorageFrame>>

\* tmp = path.with_suffix(".json.tmp"); tmp.open("w") creates the file in
\* the job root, or truncates the one a killed write left there; it raises
\* FileNotFoundError when the directory is gone again
WriteJsonOpen ==
  /\ f_pc = "open"
  /\ IF f_dir
       THEN /\ f_tmp' = <<FileContent(f_data[1], 0)>>
            /\ f_named' = TRUE
            /\ f_pc' = "dump"
            /\ UNCHANGED f_data
       ELSE /\ f_pc' = "idle"
            /\ f_data' = << >>
            /\ UNCHANGED <<f_tmp, f_named>>
  /\ UNCHANGED <<f_target, f_persisted, f_crashes, f_dir, f_rm, StorageFrame>>

\* json.dump(data, f): the next chunk reaches the file open for writing
\* (also when its name has been unlinked meanwhile); the file is closed
\* after the last one, and one without a name is gone then.
WriteJsonDump ==
  /\ f_pc = "dump"
  /\ LET written == <<FileContent(f_data[1], f_tmp[1].chunks + 1)>>
         closed == f_tmp[1].chunks + 1 = NumChunks
     IN /\ f_tmp' = IF closed /\ ~f_named THEN << >> ELSE written
        /\ f_pc' = IF closed THEN "replace" ELSE "dump"
  /\ UNCHANGED <<f_target, f_named, f_data, f_persisted, f_crashes, f_dir,
                 f_rm, StorageFrame>>

\* tmp.replace(path): the rename puts the complete file in place at once;
\* it raises FileNotFoundError when the name of the temporary file has been
\* unlinked, and nothing is put in place
WriteJsonReplace ==
  /\ f_pc = "replace"
  /\ IF f_named
       THEN /\ f_target' = f_tmp
            /\ f_tmp' = << >>
            /\ f_named' = FALSE
            /\ f_persisted' = f_persisted \cup {f_data[1]}
       ELSE UNCHANGED <<f_target, f_tmp, f_named, f_persisted>>
  /\ f_data' = << >>
  /\ f_pc' = "idle"
  /\ UNCHANGED <<f_crashes, f_dir, f_rm, StorageFrame>>

\* delete_task: root.exists() (else 404, nothing changes), then
\* shutil.rmtree(root, ignore_errors=True) opens the job root and lists it
\* (_rmtree_safe_fd: entries = list(os.scandir(topfd)))
RmtreeList ==
  /\ f_rm = << >>
  /\ f_dir
  /\ f_rm' = <<scandir(f_target, f_named)>>
  /\ UNCHANGED <<f_target, f_tmp, f_named, f_pc, f_data, f_persisted,
                 f_crashes, f_dir, StorageFrame>>

\* for entry in entries: os.unlink(entry.name, dir_fd=topfd), in the order
\* the directory gave them.  The name is removed whatever file holds it by
\* now; when it is not there any more the error is ignored.  A temporary
\* file that write_json holds open keeps taking the data without its name.
RmtreeUnlink(name) ==
  /\ f_rm # << >>
  /\ name \in f_rm[1]
  /\ f_rm' = <<f_rm[1] \ {name}>>
  /\ IF name = "job_status.json"
       THEN /\ f_target' = << >>
            /\ UNCHANGED <<f_tmp, f_named>>
       ELSE /\ f_named' = FALSE
            /\ f_tmp' = IF f_named /\ f_pc # "dump" THEN << >> ELSE f_tmp
            /\ UNCHANGED f_target
  /\ UNCHANGED <<f_pc, f_data, f_persisted, f_crashes, f_dir, StorageFrame>>

\* os.rmdir(path) after the entries: it removes the job root when that is
\* empty; when write_json has put a file there since the listing it fails,
\* the error is ignored and the job root stays.  delete_task returns.
RmtreeRmdir ==
  /\ f_rm = <<{}>>
  /\ f_dir' = (scandir(f_target, f_named) # {})
  /\ f_rm' = << >>
  /\ UNCHANGED <<f_target, f_tmp, f_named, f_pc, f_data, f_persisted,
                 f_crashes, StorageFrame>>

\* The process is killed inside write_json or inside rmtree; the files stay
\* as they are (a temporary file without a name is gone).
Crash ==
  /\ f_pc # "idle" \/ f_rm # << >>
  /\ f_crashes < MaxCrashes
  /\ f_crashes' = f_crashes + 1
  /\ f_pc' = "idle"
  /\ f_data' = << >>
  /\ f_rm' = << >>
  /\ f_tmp' = IF f_named THEN f_tmp ELSE << >>
  /\ UNCHANGED <<f_target, f_named, f_persisted, f_dir, StorageFrame>>

StorageInit ==
  /\ now = 0
  /\ max_queue_size = 0
  /\ max_workers = 0
  /\ auto_publish = FALSE
  /\ QueueFresh
  /\ backend_setting = "hf"
  /\ dynamic_workers = TRUE
  /\ use_gpu = FALSE
  /\ ManagerFresh
  /\ TokenFresh
  /\ GateCalcFresh
  /\ StorageFresh
  /\ ExtraFresh
  /\ BatchFresh

StorageNext ==
  \/ \E data \in StatusObjects : WriteJsonCall(data)
  \/ WriteJsonCheck
  \/ WriteJsonMkdir
  \/ WriteJsonOpen
  \/ WriteJsonDump
  \/ WriteJsonReplace
  \/ RmtreeList
  \/ \E name \in StatusNames : RmtreeUnlink(name)
  \/ RmtreeRmdir
  \/ Crash

StorageSpec == StorageInit /\ [][StorageNext]_vars

\* C19: in every state, also right after the process was killed inside a
\* write, the status file is absent or holds one complete object that a
\* write persisted in full.
C19_StatusFileNeverPartial ==
  \/ f_target = << >>
  \/ /\ Parses(f_target)
     /\ f_target[1].data \in f_persisted

\* The process was killed while the temporary file was half written; the
\* status file holds the complete object of the write before.
C19_Witness ==
  /\ f_crashes >= 1
  /\ f_pc = "idle"
  /\ f_tmp # << >> /\ ~Parses(f_tmp)
  /\ Parses(f_target)
  /\ f_target[1].data # f_tmp[1].data

(***************************************************************************)
(* DocumentPipeline.run on one PDF with no caller page range: the choice   *)
(* between _run_batched and _run_single, and the pages each predict call   *)
(* returns (DeepSeekOCRModel.predict, _parse_page_ranges).                 *)
(***************************************************************************)
\* page_ranges = None
NoRange == << >>

\* range(a, b + 1) as a list
PageList(a, b) == [i \in 1..(b - a + 1) |-> a + i - 1]

\* f"{start_page}-{end_page}": one part, made of a number, "-" and a number
format_page_range(start_page, end_page) == << <<start_page, "-", end_page>> >>

\* max(1, min(total_pages, int(x)))
ClampPage(x, total_pages) == Max(1, Min(total_pages, x))

\* The pages one part of a range string stands for.
parse_part(part, total_pages) ==
  IF Len(part) = 3
    THEN LET start == ClampPage(part[1], total_pages)
             end == ClampPage(part[3], total_pages)
         IN IF start <= end THEN PageList(start, end) ELSE PageList(end, start)
    ELSE <<ClampPage(part[1], total_pages)>>

RECURSIVE parse_parts(_, _)
parse_parts(parts, total_pages) ==
  IF parts = << >> THEN << >>
  ELSE parse_part(Head(parts), total_pages) \o parse_parts(Tail(parts), total_pages)

\* De-duplicate but keep order.
RECURSIVE dedupe(_, _)
dedupe(pages, seen) ==
  IF pages = << >> THEN << >>
  ELSE IF Head(pages) \in seen THEN dedupe(Tail(pages), seen)
  ELSE <<Head(pages)>> \o dedupe(Tail(pages), seen \cup {Head(pages)})

\* _parse_page_ranges(spec, total_pages)
parse_page_ranges(spec, total_pages) ==
  IF spec = NoRange THEN PageList(1, total_pages)
  ELSE LET out == dedupe(parse_parts(spec, total_pages), {})
       IN IF out = << >> THEN PageList(1, total_pages) ELSE out

\* predict(input, page_ranges=spec) on a PDF of total pages: one result per
\* page of the parsed range, in that order, named by its page_index.
predict(total, spec) == parse_page_ranges(spec, total)

\* batch_size = max(1, self.settings.batch_page_size)
batch_size(size) == Max(1, size)

\* Variant whose batch ends one page later.
batch_end_page_overlapping(start_page, size, total_pages) ==
  Min(start_page + batch_size(size), total_pages)

\* end_page = min(start_page + batch_size - 1, total_pages)
batch_end_page(start_page, size, total_pages) ==
  Min(start_page + batch_size(size) - 1, total_pages)

\* The part that no step of run changes: the other components and the page
\* count the document has for PyMuPDF.
BatchFrame == <<now, qvars, mvars, tvars, gvars, svars, yvars, b_fitz>>

\* The page_ranges arguments tried: None, "", "2-3" and "3,1".
CallerRanges ==
  { << >>, << << >> >>, << << <<2, "-", 3>> >> >>, << << <<3>>, <<1>> >> >> }

\* The page_ranges string handed to predict by _run_single.
given_range == IF b_range = << >> THEN NoRange ELSE b_range[1]

\* Variant of the mode choice that overrides a page range of the caller.
RunDispatchAnyRange ==
  /\ b_pc = "run"
  /\ b_pc' = IF b_auto /\ b_known /\ b_total > b_size
             THEN "batch_loop" ELSE "single"
  /\ UNCHANGED <<b_total, b_size, b_auto, b_start, b_ranges, b_out,
                 b_known, b_range, b_acq, b_held, b_md, BatchFrame>>

\* run(): auto batching on, the page count known and above
\* settings.batch_page_size, page_ranges None: _run_batched, else _run_single
RunDispatch ==
  /\ b_pc = "run"
  /\ b_pc' = IF b_auto /\ b_known /\ b_total > b_size /\ b_range = << >>
             THEN "batch_loop" ELSE "single"
  /\ UNCHANGED <<b_total, b_size, b_auto, b_start, b_ranges, b_out,
                 b_known, b_range, b_acq, b_held, b_md, BatchFrame>>

\* one pass of: for start_page in range(1, total_pages + 1, batch_size)
\* reaches: with self.mm.inference_context(timeout=timeout) as model.
\* The context is entered, or it raises and the exception leaves run.
BatchAcquire ==
  /\ b_pc = "batch_loop"
  /\ b_start <= b_total
  /\ b_acq' = b_acq + 1
  /\ \/ b_held' = TRUE /\ b_pc' = "batch_predict"
     \/ b_held' = b_held /\ b_pc' = "raised"
  /\ UNCHANGED <<b_total, b_size, b_auto, b_start, b_ranges, b_out,
                 b_known, b_range, b_md, BatchFrame>>

\* the body of the with block of one batch and its exit:
\* predict on the batch's range, then all_outputs.extend(batch_outputs);
\* a predict that raises twice leaves the block and run
BatchIteration ==
  /\ b_pc = "batch_predict"
  /\ b_held' = FALSE
  /\ \/ LET end_page == batch_end_page(b_start, b_size, b_total)
            page_range == format_page_range(b_start, end_page)
            batch_outputs == predict(b_fitz, page_range)
        IN /\ b_ranges' = Append(b_ranges, <<b_start, end_page>>)
           /\ b_out' = b_out \o batch_outputs
           /\ b_start' = b_start + batch_size(b_size)
           /\ b_pc' = "batch_loop"
     \/ /\ b_pc' = "raised"
        /\ UNCHANGED <<b_ranges, b_out, b_start>>
  /\ UNCHANGED <<b_total, b_size, b_auto, b_known, b_range, b_acq, b_md,
                 BatchFrame>>

\* the range is exhausted: save_to_json and save_to_markdown of every
\* result; _run_batched writes nothing to job_paths.md_file
BatchLoopExit ==
  /\ b_pc = "batch_loop"
  /\ b_start > b_total
  /\ b_pc' = "done_batched"
  /\ UNCHANGED <<b_total, b_size, b_auto, b_start, b_ranges, b_out,
                 b_known, b_range, b_acq, b_held, b_md, BatchFrame>>

\* _run_single: with self.mm.inference_context(timeout=timeout) as model
SingleAcquire ==
  /\ b_pc = "single"
  /\ b_acq' = b_acq + 1
  /\ \/ b_held' = TRUE /\ b_pc' = "single_predict"
     \/ b_held' = b_held /\ b_pc' = "raised"
  /\ UNCHANGED <<b_total, b_size, b_auto, b_start, b_ranges, b_out,
                 b_known, b_range, b_md, BatchFrame>>

\* _run_single collects the text of a result when info = res.markdown is a
\* dict.  DSResult.markdown is a method and is not called there, so info is
\* the bound method and no result contributes.
md_parts(outputs) == SelectSeq(outputs, LAMBDA res : FALSE)

\* _run_single: predict with the caller's page_ranges, the exit of the with
\* block, the per-result saves, and full.md written when md_parts is not
\* empty
RunSingle ==
  /\ b_pc = "single_predict"
  /\ b_held' = FALSE
  /\ \/ LET outputs == predict(b_fitz, given_range)
        IN /\ b_out' = outputs
           /\ b_md' = IF md_parts(outputs) # << >>
                      THEN <<md_parts(outputs)>> ELSE b_md
           /\ b_pc' = "done_single"
     \/ /\ b_pc' = "raised"
        /\ UNCHANGED <<b_out, b_md>>
  /\ UNCHANGED <<b_total, b_size, b_auto, b_start, b_ranges,
                 b_known, b_range, b_acq, BatchFrame>>

BatchInit ==
  /\ now = 0
  /\ max_queue_size = 0
  /\ max_workers = 0
  /\ auto_publish = FALSE
  /\ QueueFresh
  /\ backend_setting = "hf"
  /\ dynamic_workers = TRUE
  /\ use_gpu = FALSE
  /\ ManagerFresh
  /\ TokenFresh
  /\ GateCalcFresh
  /\ StorageFresh
  /\ ExtraFresh
  /\ b_total \in 1..MaxPages
  /\ b_fitz \in 1..MaxPages
  /\ b_size \in 0..MaxBatchPageSize
  /\ b_auto \in BOOLEAN
  /\ b_known \in BOOLEAN
  /\ b_range \in CallerRanges
  /\ b_pc = "run"
  /\ b_start = 1
  /\ b_ranges = << >>
  /\ b_out = << >>
  /\ b_acq = 0
  /\ b_held = FALSE
  /\ b_md = << >>

BatchNext ==
  \/ RunDispatch
  \/ BatchAcquire
  \/ BatchIteration
  \/ BatchLoopExit
  \/ SingleAcquire
  \/ RunSingle

BatchSpec == BatchInit /\ [][BatchNext]_vars

\* The document has P pages: the page count that run reads with pypdf and
\* the one that predict reads with PyMuPDF are both P.
PageDocument == b_fitz = b_total

CoreIdle ==
  /\ now = 0
  /\ max_queue_size = 0
  /\ max_workers = 0
  /\ auto_publish = FALSE
  /\ QueueFresh
  /\ backend_setting = "hf"
  /\ dynamic_workers = TRUE
  /\ use_gpu = FALSE
  /\ ManagerFresh
  /\ TokenFresh
  /\ GateCalcFresh
  /\ StorageFresh
  /\ BatchFresh

(***************************************************************************)
(* DocumentPipeline.run with its limit checks: the download of a remote    *)
(* input, the size check, the page-count check, then _run_batched or       *)
(* _run_single, which ask for one inference_context per predict call, and  *)
(* the packing.  Other callers and delete_task run beside it.              *)
(***************************************************************************)
\* pages_count = None
NoPages == -1

\* The settings.batch_page_size tried: one that max(1, .) raises, a small
\* one and the largest.
BatchPageSizes == {-1, 2, MaxBatchPageSize}

\* The inputs of one run.  size_bytes is the size of job_paths.input_file
\* once it is in place (-1: the file does not exist, stat() raises);
\* page_ranges tells whether the caller passed one.
RunInputs ==
  [is_url : BOOLEAN, download_ok : BOOLEAN,
   size_bytes : {-1} \cup {mb * Mebibyte + d : mb \in 0..MaxSizeMb, d \in {0, 1}},
   max_upload_mb : 0..MaxSizeMb,
   is_pdf : BOOLEAN, pages : {NoPages} \cup 0..MaxPages,
   max_pages : 0..MaxPages,
   enable_auto_batch : BOOLEAN, batch_page_size : BatchPageSizes,
   page_ranges : BOOLEAN]

\* if self.settings.enable_auto_batch and pages_count is not None and
\* pages_count > self.settings.batch_page_size and page_ranges is None
\* (pages_count stays None for an input that is not a PDF)
RunsBatched(in) ==
  /\ in.enable_auto_batch
  /\ in.is_pdf /\ in.pages # NoPages
  /\ in.pages > in.batch_page_size
  /\ ~in.page_ranges

\* max_size = max(1, self.settings.max_upload_mb) * 1024 * 1024
max_size(max_upload_mb) == Max(1, max_upload_mb) * Mebibyte

ValidateFrame == <<now, qvars, mvars, tvars, xvars, lvars, hvars, dvars>>

\* run is called.
RunCall ==
  /\ v_pc = "idle"
  /\ v_error = "None"
  /\ ~v_entered
  /\ v_pc' = "download"
  /\ UNCHANGED <<v_in, v_error, v_entered, v_start, ValidateFrame>>

\* if is_url: self._ensure_download(...); raise_for_status() or the stream
\* may raise, and the exception leaves run.
RunDownload ==
  /\ v_pc = "download"
  /\ IF v_in.is_url /\ ~v_in.download_ok
       THEN v_error' = "RequestException" /\ v_pc' = "raised"
       ELSE v_pc' = "size" /\ UNCHANGED v_error
  /\ UNCHANGED <<v_in, v_entered, v_start, ValidateFrame>>

\* try: size_bytes = stat().st_size; if size_bytes > max_size: raise
\* ValueError(...)  /  except Exception: pass
RunCheckSize ==
  /\ v_pc = "size"
  /\ v_pc' = "pages"
  /\ UNCHANGED <<v_in, v_error, v_entered, v_start, ValidateFrame>>

\* Variant whose page check is wrapped like the size check.
RunCheckPagesSwallowed ==
  /\ v_pc = "pages"
  /\ v_pc' = "process"
  /\ UNCHANGED <<v_in, v_error, v_entered, v_start, ValidateFrame>>

\* if suffix == ".pdf": pages_count = get_pdf_page_count(...) (None when it
\* cannot be read); if pages_count is not None and pages_count > max_pages:
\* raise ValueError(...)
RunCheckPages ==
  /\ v_pc = "pages"
  /\ IF v_in.is_pdf /\ v_in.pages # NoPages /\ v_in.pages > v_in.max_pages
       THEN v_error' = "ValueError" /\ v_pc' = "raised"
       ELSE v_pc' = "process" /\ UNCHANGED v_error
  /\ UNCHANGED <<v_in, v_entered, v_start, ValidateFrame>>

\* The errors of the engine phase.  inference_context gives up after its
\* timeout or the load fails.  predict raises FileNotFoundError when the
\* input is not there (never written, or removed with the job root while
\* the run was under way), and the engine may fail before or after it looks
\* for the input (_ensure_loaded, the inference).  The output directory and
\* the archive may fail to be written.
AcquireErrors == {"TimeoutError", "RuntimeError"}
EngineErrors == {"RuntimeError", "OSError"}
PredictErrors == {"FileNotFoundError"} \cup EngineErrors
PackErrors == {"OSError"}

\* for start_page in range(1, total_pages + 1, batch_size) has a next value
\* (_run_single makes its one call)
HasNextCall(in, start) == RunsBatched(in) => start <= in.pages

\* _run_batched, once per batch, or _run_single:
\* with self.mm.inference_context(timeout=timeout) as model is entered, or
\* the call raises and the exception leaves run.  Between two batches the
\* inference lock is free and other callers take it.
RunAcquire ==
  /\ v_pc = "process"
  /\ HasNextCall(v_in, v_start)
  /\ v_entered' = TRUE
  /\ \/ v_pc' = "predict" /\ UNCHANGED v_error
     \/ \E e \in AcquireErrors : v_error' = e /\ v_pc' = "raised"
  /\ UNCHANGED <<v_in, v_start, ValidateFrame>>

\* the body of the with block: model.predict(input_arg, ...), and once more
\* in the handler when it raised; an exception of the second call leaves
\* run.  A missing input makes every call raise.  When predict returns the
\* with block is left; _run_batched goes on to the next start_page.
RunPredict ==
  /\ v_pc = "predict"
  /\ \/ /\ v_in.size_bytes # -1
        /\ UNCHANGED v_error
        /\ IF RunsBatched(v_in)
             THEN /\ v_start' = v_start + Max(1, v_in.batch_page_size)
                  /\ v_pc' = IF HasNextCall(v_in, v_start') THEN "process"
                                                             ELSE "pack"
             ELSE v_pc' = "pack" /\ UNCHANGED v_start
     \/ /\ \E e \in PredictErrors : v_error' = e
        /\ v_pc' = "raised"
        /\ UNCHANGED v_start
  /\ UNCHANGED <<v_in, v_entered, ValidateFrame>>

\* _run_batched on a document of no page: the range is empty and no
\* inference_context is asked for
RunNoBatch ==
  /\ v_pc = "process"
  /\ ~HasNextCall(v_in, v_start)
  /\ v_pc' = "pack"
  /\ UNCHANGED <<v_in, v_error, v_entered, v_start, ValidateFrame>>

\* job_paths.output_dir.mkdir(...), the saving of the results (its errors
\* are swallowed) and pack_zip(job_paths): run returns, or an exception of
\* mkdir or of the archive leaves it
RunPack ==
  /\ v_pc = "pack"
  /\ \/ v_pc' = "done" /\ UNCHANGED v_error
     \/ \E e \in PackErrors : v_error' = e /\ v_pc' = "raised"
  /\ UNCHANGED <<v_in, v_entered, v_start, ValidateFrame>>

ValidateInit ==
  /\ CoreIdle
  /\ LimiterFresh
  /\ PathFresh
  /\ DownloadFresh
  /\ v_in \in RunInputs
  \* get_pdf_page_count returns None for a file that cannot be opened
  /\ v_in.size_bytes = -1 => v_in.pages = NoPages
  \* a download that succeeded has written the input file
  /\ (v_in.is_url /\ v_in.download_ok) => v_in.size_bytes # -1
  /\ v_pc = "idle"
  /\ v_error = "None"
  /\ v_entered = FALSE
  /\ v_start = 1

ValidateNext ==
  \/ RunCall
  \/ RunDownload
  \/ RunCheckSize
  \/ RunCheckPages
  \/ RunAcquire
  \/ RunPredict
  \/ RunNoBatch
  \/ RunPack

ValidateSpec == ValidateInit /\ [][ValidateNext]_vars

\* The run has ended, by returning or by raising.
RunEnded == v_pc \in {"done", "raised"}

\* The download, if any, succeeded, so the checks of the input were reached.
InputInPlace == ~(v_in.is_url /\ ~v_in.download_ok)

\* The page count of the PDF is unknown (get_pdf_page_count returned None).
UnknownPageCount == v_in.is_pdf /\ v_in.pages = NoPages

\* With an unknown page count the page check passes on to the processing.
C21_UnknownPassesCheck ==
  (v_pc = "pages" /\ UnknownPageCount) => v_pc' = "process"

\* C21: a run on a PDF with a known page count above max_pages ends with a
\* ValueError and never calls inference_context; on a PDF whose page count
\* is unknown the page check raises nothing and the run goes on to the
\* engine: it never ends with the ValueError of a limit, and whenever it has
\* ended with its input in place it has called inference_context.
C21_PageLimitRaisesBeforeEngine ==
  /\ []((v_in.is_pdf /\ v_in.pages # NoPages /\ v_in.pages > v_in.max_pages)
          => /\ ~v_entered
             /\ (RunEnded /\ InputInPlace)
                  => (v_pc = "raised" /\ v_error = "ValueError"))
  /\ [][C21_UnknownPassesCheck]_vars
  /\ [](UnknownPageCount
          => /\ v_error # "ValueError"
             /\ (RunEnded /\ InputInPlace) => v_entered)

\* A PDF of 3 pages with max_pages 2 was refused before any engine use.
C21_Witness ==
  /\ v_in.is_pdf /\ v_in.pages = 3 /\ v_in.max_pages = 2
  /\ v_pc = "raised" /\ v_error = "ValueError" /\ ~v_entered

\* C22: a run on an input file larger than max(1, max_upload_mb) MiB ends
\* with an exception and never enters an inference_context.
C22_SizeLimitRaisesBeforeEngine ==
  (v_in.size_bytes > max_size(v_in.max_upload_mb))
    => /\ ~v_entered
       /\ RunEnded => v_pc = "raised"

(***************************************************************************)
(* RateLimiter (app/security/rate_limit.py).  The clock readings tried are *)
(* whole seconds of time.monotonic().  A token amount is a float: it is    *)
(* kept as tok tenths (the smallest rate 0.1/s adds one a second) and err, *)
(* the sign of the rounding error the float carries against that decimal:  *)
(* below it, equal, or above it, by less than any tenth.  allow() is       *)
(* called from the http middleware on the event loop, one call at a time;  *)
(* it reads the clock and then takes the lock.  The cleanup thread runs    *)
(* beside it, reads the clock after its sleep and then takes the same      *)
(* lock.  Nothing blocks inside the lock, so a locked section is one step. *)
(***************************************************************************)
\* One token, the default of the parameter tokens of allow(), in tenths.
TokenCost == 10
\* time.sleep(60) of the cleanup thread and the 60 of _cleanup.
CleanupPeriod == 60
\* self._ttl = max(60, int(ttl_seconds))
MinTtl == 60

\* The burst arguments tried: one below the floor of max(1, burst), a
\* small one, and one above the 6 tokens that the smallest rate refills
\* within the smallest TTL.
Bursts == {0, 2, MaxBurst}

\* The constructor arguments; rate_tenths is rate_per_sec * 10.
LimiterArgs ==
  [rate_tenths : {0, 10}, burst : Bursts,
   ttl_seconds : {0, MaxTtlSeconds}]

\* The sign of the error of an inexact float operation.
Roundings == {-1, 0, 1}

\* self.rate = max(0.1, float(rate_per_sec)), in tenths per second
rl_rate(cfg) == Max(1, cfg.rate_tenths)
\* self.burst = max(1, int(burst))
rl_burst(cfg) == Max(1, cfg.burst)
\* self._ttl
rl_ttl(cfg) == Max(MinTtl, cfg.ttl_seconds)

\* x >= y and x <= y for a float amount x and a whole number y of tenths
AtLeast(x, y) == x.tok > y \/ (x.tok = y /\ x.err >= 0)
AtMost(x, y) == x.tok < y \/ (x.tok = y /\ x.err <= 0)

\* The buckets left after those with last < cutoff are popped.
sweep(buckets, t, ttl) ==
  [k \in {x \in DOMAIN buckets : ~(buckets[x].last < t - ttl)} |-> buckets[k]]

\* _cleanup(now): nothing within 60 s of the last cleanup
cleanup(buckets, last_cleanup, t, ttl) ==
  IF t - last_cleanup < CleanupPeriod THEN buckets ELSE sweep(buckets, t, ttl)

\* tok + self.rate * elapsed with elapsed = max(0.0, now - last) is exact
\* when nothing is added, and when the rate is a whole number of tokens a
\* second and the amount carries no error (all operands are small integers)
sum_exact(b, t, cfg) ==
  \/ Max(0, t - b.last) = 0
  \/ rl_rate(cfg) % TokenCost = 0 /\ b.err = 0

\* tok + self.rate * elapsed: an exact sum keeps the error the amount
\* carries; else it is rounded, rnd being the sign of the error left.
refill_uncapped(b, t, cfg, rnd) ==
  [tok |-> b.tok + rl_rate(cfg) * Max(0, t - b.last),
   err |-> IF sum_exact(b, t, cfg) THEN b.err ELSE rnd]

\* tok = min(float(self.burst), tok + self.rate * elapsed)
refill(b, t, cfg, rnd) ==
  LET sum == refill_uncapped(b, t, cfg, rnd)
      cap == rl_burst(cfg) * TokenCost
  IN IF AtLeast(sum, cap) THEN [tok |-> cap, err |-> 0] ELSE sum

\* self._buckets.get(key, (float(self.burst), now))
bucket_get(buckets, k, t, cfg) ==
  IF k \in DOMAIN buckets THEN buckets[k]
  ELSE [tok |-> rl_burst(cfg) * TokenCost, err |-> 0, last |-> t]

\* The token amount allow() finds for the key after cleanup and refill.
allow_tokens(buckets, last_cleanup, k, t, cfg, rnd) ==
  refill(bucket_get(cleanup(buckets, last_cleanup, t, rl_ttl(cfg)), k, t, cfg),
         t, cfg, rnd)

\* if tok >= tokens
allow_result(buckets, last_cleanup, k, t, cfg, rnd) ==
  AtLeast(allow_tokens(buckets, last_cleanup, k, t, cfg, rnd), TokenCost)

\* tok -= tokens when the call is allowed (exact for tok >= tokens = 1.0);
\* the bucket stored is (tok, now)
debit(amount, res, t) ==
  [tok |-> IF res THEN amount.tok - TokenCost ELSE amount.tok,
   err |-> amount.err, last |-> t]

\* The token amount allow() finds for the key when no bucket was removed.
kept_tokens(kept, k, t, cfg, rnd) == refill(bucket_get(kept, k, t, cfg), t, cfg, rnd)

\* if tok >= tokens, on the buckets of which none was removed
kept_result(kept, k, t, cfg, rnd) ==
  AtLeast(kept_tokens(kept, k, t, cfg, rnd), TokenCost)

LimiterFrame == <<now, qvars, mvars, tvars, xvars, pvars, hvars, dvars>>

\* The streak of calls for key k after a call at time t with result res: the
\* calls made for the key at one instant, counted up to the first refusal.
\* A streak is "new" when the key was never seen before, "empty" when the
\* call before it left exactly 0 tokens, "other" otherwise.
StreakAfter(k, t, res) ==
  LET old == r_streak[k]
      cur == IF old.at = t THEN old
             ELSE [at |-> t,
                   kind |-> IF old.kind = "none" THEN "new"
                            ELSE IF r_drained[k] # -1 THEN "empty" ELSE "other",
                   waited |-> IF r_drained[k] # -1 THEN t - r_drained[k] ELSE 0,
                   ok |-> 0, failed |-> FALSE, late |-> FALSE]
  IN IF res
       THEN IF cur.failed THEN [cur EXCEPT !.late = TRUE]
            ELSE [cur EXCEPT !.ok = cur.ok + 1]
       ELSE [cur EXCEPT !.failed = TRUE]

\* allow(key), first statement: now = time.monotonic()
AllowReadClock(k) ==
  /\ r_call.pc = "idle"
  /\ r_call' = [pc |-> "lock", key |-> k, now |-> r_mono]
  /\ UNCHANGED <<r_cfg, r_mono, r_buckets, r_last_cleanup, r_thread_slept,
                 r_advances, r_streak, r_drained, r_kept, r_sweep,
                 LimiterFrame>>

\* allow(key), with self._lock: cleanup, refill, then admit and debit one
\* token, or refuse; the bucket is stored either way, with the time read
\* before the lock was taken.  rnd is the rounding of the limiter's sum and
\* krnd that of the limiter that keeps every bucket: an exact sum is not
\* rounded, the same float operation on the same operands rounds the same
\* way, and on different operands each sum rounds on its own.
Allow(rnd, krnd) ==
  /\ r_call.pc = "lock"
  /\ LET k == r_call.key
         t == r_call.now
         cleaned == cleanup(r_buckets, r_last_cleanup, t, rl_ttl(r_cfg))
         found == bucket_get(cleaned, k, t, r_cfg)
         kfound == bucket_get(r_kept, k, t, r_cfg)
         tok == allow_tokens(r_buckets, r_last_cleanup, k, t, r_cfg, rnd)
         res == allow_result(r_buckets, r_last_cleanup, k, t, r_cfg, rnd)
         left == debit(tok, res, t)
         ktok == kept_tokens(r_kept, k, t, r_cfg, krnd)
         kleft == debit(ktok, kept_result(r_kept, k, t, r_cfg, krnd), t)
     IN /\ sum_exact(found, t, r_cfg) => rnd = 0
        /\ sum_exact(kfound, t, r_cfg) => krnd = 0
        /\ found = kfound => krnd = rnd
        /\ r_buckets' = [x \in DOMAIN cleaned \cup {k} |->
                           IF x = k THEN left ELSE cleaned[x]]
        /\ r_last_cleanup' = IF t - r_last_cleanup < CleanupPeriod
                               THEN r_last_cleanup ELSE t
        /\ r_streak' = [r_streak EXCEPT ![k] = StreakAfter(k, t, res)]
        /\ r_drained' = [r_drained EXCEPT
                           ![k] = IF left.tok = 0 /\ left.err = 0 THEN t ELSE -1]
        /\ r_kept' = [x \in DOMAIN r_kept \cup {k} |->
                        IF x = k THEN kleft ELSE r_kept[x]]
  /\ r_call' = NoCall
  /\ UNCHANGED <<r_cfg, r_mono, r_thread_slept, r_advances, r_sweep,
                 LimiterFrame>>

\* _periodic_cleanup: time.sleep(60) has returned; now = time.monotonic()
CleanupReadClock ==
  /\ r_sweep.pc = "idle"
  /\ r_mono - r_thread_slept >= CleanupPeriod
  /\ r_sweep' = [pc |-> "lock", key |-> 0, now |-> r_mono]
  /\ UNCHANGED <<r_cfg, r_mono, r_buckets, r_last_cleanup, r_thread_slept,
                 r_advances, r_streak, r_drained, r_kept, r_call,
                 LimiterFrame>>

\* _periodic_cleanup, with self._lock: pop the buckets with last < now - ttl
\* and note the time read before the lock; then the thread sleeps again.
PeriodicCleanup ==
  /\ r_sweep.pc = "lock"
  /\ r_buckets' = sweep(r_buckets, r_sweep.now, rl_ttl(r_cfg))
  /\ r_last_cleanup' = r_sweep.now
  /\ r_thread_slept' = r_mono
  /\ r_sweep' = NoCall
  /\ UNCHANGED <<r_cfg, r_mono, r_advances, r_streak, r_drained, r_kept,
                 r_call, LimiterFrame>>

\* The time between two calls: short, or longer than the period and the
\* smallest TTL, or longer than the largest TTL.
Elapses == {1, 2, MinTtl + 1, MaxTtlSeconds + 1}

\* time.monotonic() moves on.
Elapse(d) ==
  /\ r_advances < MaxAdvances
  /\ r_advances' = r_advances + 1
  /\ r_mono' = r_mono + d
  /\ UNCHANGED <<r_cfg, r_buckets, r_last_cleanup, r_thread_slept,
                 r_streak, r_drained, r_kept, r_call, r_sweep, LimiterFrame>>

LimiterInit ==
  /\ CoreIdle
  /\ ValidateFresh
  /\ PathFresh
  /\ DownloadFresh
  /\ r_cfg \in LimiterArgs
  /\ r_mono = 0
  /\ r_buckets = << >>
  /\ r_last_cleanup = 0
  /\ r_thread_slept = 0
  /\ r_advances = 0
  /\ r_streak = [k \in Keys |-> NoStreak]
  /\ r_drained = [k \in Keys |-> -1]
  /\ r_kept = << >>
  /\ r_call = NoCall
  /\ r_sweep = NoCall

LimiterNext ==
  \/ \E k \in Keys : AllowReadClock(k)
  \/ \E rnd, krnd \in Roundings : Allow(rnd, krnd)
  \/ CleanupReadClock
  \/ PeriodicCleanup
  \/ \E d \in Elapses : Elapse(d)

LimiterSpec == LimiterInit /\ [][LimiterNext]_vars

\* C23: every bucket holds at least 0 and at most burst tokens.
C23_TokensWithinBurst ==
  \A k \in DOMAIN r_buckets :
     /\ AtLeast(r_buckets[k], 0)
     /\ AtMost(r_buckets[k], rl_burst(r_cfg) * TokenCost)

\* A bucket was drained, refilled to its cap by a long wait and debited once.
C23_Witness ==
  \E k \in DOMAIN r_buckets :
     /\ rl_burst(r_cfg) >= 2
     /\ r_streak[k].kind = "empty"
     /\ r_streak[k].waited * rl_rate(r_cfg) > rl_burst(r_cfg) * TokenCost
     /\ r_buckets[k].tok = (rl_burst(r_cfg) - 1) * TokenCost

\* C24: of the calls made at one instant for a key never seen before,
\* exactly burst succeed before the first refusal; of the calls made at one
\* instant t seconds after the bucket was left empty, exactly
\* min(burst, floor(rate * t)) succeed before the first refusal; and no call
\* succeeds at that instant after a refusal.
C24_BurstThenRate ==
  \A k \in Keys :
     LET st == r_streak[k] IN
       /\ ~st.late
       /\ st.kind = "new" => st.ok <= rl_burst(r_cfg)
       /\ (st.kind = "new" /\ st.failed) => st.ok = rl_burst(r_cfg)
       /\ (st.kind = "empty" /\ st.failed)
            => st.ok = Min(rl_burst(r_cfg), (rl_rate(r_cfg) * st.waited) \div TokenCost)

(***************************************************************************)
(* The JobQueue with the clock running: time.time() may advance between    *)
(* any two steps of the submitters and the workers.                        *)
(***************************************************************************)
QueueTimedNext ==
  \/ QueueLiveNext
  \/ Tick

QueueTimedSpec == QueueInit /\ [][QueueTimedNext]_vars

\* A worker holds job j and has not yet marked it as processing.
JustDequeued(j) == \E w \in Workers : wjob[w] = j /\ wpc[w] = "got"

\* C25, the steps: started_at changes only from unset, only for a job a
\* worker has just dequeued, and to the current time; finished_at changes
\* only from unset and only when started_at is set.
C25_TimestampSteps ==
  \A j \in DOMAIN jobs :
     /\ jobs'[j].queued_at = jobs[j].queued_at
     /\ jobs'[j].started_at # jobs[j].started_at
          => /\ jobs[j].started_at = NoTime
             /\ JustDequeued(j)
             /\ jobs'[j].started_at = now
     /\ jobs'[j].finished_at # jobs[j].finished_at
          => /\ jobs[j].finished_at = NoTime
             /\ jobs[j].started_at # NoTime
             /\ jobs'[j].finished_at = now

\* C25, the states: a job has started_at exactly when a worker has dequeued
\* and marked it, finished_at only together with started_at, and the set
\* timestamps are ordered queued_at <= started_at <= finished_at.
C25_TimestampStates ==
  \A j \in DOMAIN jobs :
     /\ jobs[j].started_at # NoTime
          <=> (j \in Range(dequeued) /\ ~JustDequeued(j))
     /\ jobs[j].finished_at # NoTime => jobs[j].started_at # NoTime
     /\ jobs[j].started_at # NoTime => jobs[j].queued_at <= jobs[j].started_at
     /\ jobs[j].finished_at # NoTime => jobs[j].started_at <= jobs[j].finished_at

\* C25: started_at is assigned once, when a worker dequeues the job,
\* finished_at at most once and after it, and finished_at >= started_at >=
\* queued_at.
C25_TimestampsOnceAndOrdered ==
  /\ [][C25_TimestampSteps]_vars
  /\ []C25_TimestampStates

\* A job queued at 0, started at 1 and finished at 2, while another job has
\* not been started.
C25_Witness ==
  \E j, k \in DOMAIN jobs :
     /\ jobs[j].queued_at = 0 /\ jobs[j].started_at = 1 /\ jobs[j].finished_at = 2
     /\ jobs[k].started_at = NoTime

(***************************************************************************)
(* validate_path_in_storage (app/utils/security.py).  A path is a flag     *)
(* (absolute or relative) and its components; resolved paths are absolute  *)
(* and written as the sequence of their components below "/".              *)
(***************************************************************************)
\* Path components: directory and file names, and the parent reference.
PathNames == {"s", "a", "x", ".."}

\* Sequences of at most n components.
PartsUpTo(n) == UNION {[1..m -> PathNames] : m \in 0..n}

\* The paths handed to the function.
PathArgs == [abs : BOOLEAN, parts : PartsUpTo(MaxPathLen)]

\* The symbolic links of the file system: none, or /s/a -> /x.
LinkSets == {<< >>, [p \in {<<"s", "a">>} |-> <<"x">>]}

\* Path.resolve() without the normalisation: the components as written.
RECURSIVE walk_lexical(_, _, _)
walk_lexical(cur, parts, links) ==
  IF parts = << >> THEN cur
  ELSE walk_lexical(Append(cur, Head(parts)), Tail(parts), links)

\* os.path.realpath, one component after the other: ".." leaves the
\* directory reached so far ("/" is its own parent), a name enters it, and
\* a symbolic link is replaced by its target.
RECURSIVE walk(_, _, _)
walk(cur, parts, links) ==
  IF parts = << >> THEN cur
  ELSE LET part == Head(parts)
           nxt == IF part = ".."
                    THEN (IF cur = << >> THEN cur ELSE SubSeq(cur, 1, Len(cur) - 1))
                    ELSE Append(cur, part)
       IN walk(IF nxt \in DOMAIN links THEN links[nxt] ELSE nxt,
               Tail(parts), links)

\* Path(p).resolve(): a relative path starts at the working directory.
resolve(path, cwd, links) ==
  walk(IF path.abs THEN << >> ELSE cwd, path.parts, links)

\* target.relative_to(storage_root) does not raise ValueError.
relative_to(target, root) ==
  /\ Len(root) <= Len(target)
  /\ SubSeq(target, 1, Len(root)) = root

\* validate_path_in_storage(storage_root, target_path)
validate_path_in_storage(storage_root, target_path, cwd, links) ==
  LET root == resolve(storage_root, cwd, links)
      target == resolve(target_path, cwd, links)
  IN IF relative_to(target, root)
       THEN [status |-> 200, path |-> target]
       ELSE [status |-> 403, path |-> << >>]

PathFrame == <<now, qvars, mvars, tvars, xvars, pvars, lvars, dvars>>

ValidatePathCall ==
  /\ h_out = NotCalled
  /\ h_out' = validate_path_in_storage(h_in.root, h_in.target, h_in.cwd, h_in.links)
  /\ UNCHANGED <<h_in, PathFrame>>

PathInit ==
  /\ CoreIdle
  /\ ValidateFresh
  /\ LimiterFresh
  /\ DownloadFresh
  /\ h_in \in [root : PathArgs, target : PathArgs,
               cwd : {<< >>, <<"s">>}, links : LinkSets]
  /\ h_out = NotCalled

PathNext == ValidatePathCall

PathSpec == PathInit /\ [][PathNext]_vars

\* The directory a resolved path names, as a chain of directories entered
\* from "/": no parent reference and no symbolic link is left in it.
Physical(parts, links) ==
  /\ \A i \in 1..Len(parts) : parts[i] # ".."
  /\ \A i \in 1..Len(parts) : SubSeq(parts, 1, i) \notin DOMAIN links

\* target_path is storage_root followed by the components rest.
Under(rest) ==
  /\ h_in.target.abs = h_in.root.abs
  /\ h_in.target.parts = h_in.root.parts \o rest

\* C26: the call returns the resolved target when it lies in the resolved
\* storage root and raises 403 otherwise; the returned path is a physical
\* path below the root; storage_root/.. and storage_root/../x are refused
\* (unless the root is "/", or is itself the directory x of its parent), and
\* so is a path that shares no leading directory with the root.
C26_PathInsideOrForbidden ==
  h_out # NotCalled =>
    LET root == resolve(h_in.root, h_in.cwd, h_in.links)
        target == resolve(h_in.target, h_in.cwd, h_in.links)
    IN /\ Physical(root, h_in.links) /\ Physical(target, h_in.links)
       /\ relative_to(target, root) => h_out = [status |-> 200, path |-> target]
       /\ ~relative_to(target, root) => h_out.status = 403
       /\ (root # << >> /\ Under(<<"..">>)) => h_out.status = 403
       /\ (root # << >> /\ Under(<<"..", "x">>) /\ root[Len(root)] # "x")
            => h_out.status = 403
       /\ (root # << >> /\ target # << >> /\ root[1] # target[1])
            => h_out.status = 403

\* storage_root/../x was refused, with a root two directories deep.
C26_Witness ==
  /\ h_out # NotCalled
  /\ h_out.status = 403
  /\ h_in.root = [abs |-> TRUE, parts |-> <<"s">>]
  /\ h_in.target = [abs |-> TRUE, parts |-> <<"s", "..", "x">>]

(***************************************************************************)
(* Further properties of the ModelManager.                                 *)
(***************************************************************************)
\* C27: while the active backend is hf, also after a fallback from vllm, at
\* most one caller is inside the body of an inference_context.
C27_FallbackMutualExclusion ==
  backend = "hf" => Cardinality(InBody) <= 1

\* Callers waiting at the memory gate or running the body.
AtGateOrInBody == {c \in Callers : cpc[c] \in {"gate", "gate_deadline", "body"}}

\* C28: no tick of the idle watcher unsets the engine handle while a caller
\* waits at the gate or runs the body of an inference_context.
C28_NoUnloadWhileInUse ==
  [][AtGateOrInBody # {} => ~IdleUnload]_vars

(***************************************************************************)
(* Further properties of the JobQueue.                                     *)
(***************************************************************************)
\* stop() still has sentinels to push and its blocking put finds the queue
\* full.
StopBlocked ==
  /\ stop_pc = "put"
  /\ stop_puts < (IF started THEN NumWorkers(max_workers) ELSE 0)
  /\ Len(q) >= Capacity(max_queue_size)

\* C29: stop() returns for any queue contents and worker state: it is never
\* blocked in a put on a full queue when every worker thread has exited and
\* nothing will take an item from the queue any more.
C29_StopReturns ==
  ~(StopBlocked /\ \A w \in Workers : wpc[w] = "exited")

(***************************************************************************)
(* The ModelManager with every thread scheduled again and again and the    *)
(* clock advancing: the polling loops of inference_context are re-run      *)
(* after each time.sleep(wait_interval), and an engine load that has begun *)
(* returns.                                                                *)
(***************************************************************************)
\* The settings under which callers wait both for the inference lock and at
\* the memory gate: the hf backend on a GPU with several workers.
ManagerLiveInit ==
  /\ ManagerInit
  /\ use_gpu
  /\ dynamic_workers
  /\ max_workers = MaxWorkers
  /\ backend_setting = "hf"

\* The clock, followed for longer than in the other specifications so that
\* calls entered at several times see their timeout pass.
LiveTick ==
  /\ now < MaxLiveTime
  /\ now' = now + 1
  /\ UNCHANGED <<qvars, mvars, tvars, xvars, yvars>>

\* One iteration step of the two polling loops of inference_context.
PollStep(c) ==
  \/ LockAcquire(c)
  \/ LockBusy(c)
  \/ LockTimeout(c)
  \/ LockSleep(c)
  \/ \E pressure \in BOOLEAN, mem \in GpuFreeReadings : GateAdmit(c, pressure, mem)
  \/ \E pressure \in BOOLEAN, mem \in GpuFreeReadings : GateBusy(c, pressure, mem)
  \/ GateTimeout(c)
  \/ GateSleep(c)

ManagerLiveNext ==
  \/ LiveTick
  \/ \E c \in Callers : CallerStep(c)
  \/ IdleUnload
  \/ Unload

\* The clock advances, a thread inside a polling loop runs its next step,
\* and an engine load that has begun returns.  Nothing is assumed about the
\* body of a with block: it may never end.
ManagerLiveSpec ==
  /\ ManagerLiveInit
  /\ [][ManagerLiveNext]_vars
  /\ WF_vars(LiveTick)
  /\ \A c \in Callers : WF_vars(PollStep(c)) /\ WF_vars(LoadFinish(c))

\* Caller c polls for the inference lock or for a GPU slot.
Waiting(c) == cpc[c] \in {"lock_wait", "lock_deadline", "gate", "gate_deadline"}

\* The caller has raised TimeoutError.
TimedOut(c) == c_exc[c] \in {"lock_timeout", "gate_timeout"}

\* C30, the steps: TimeoutError is raised only when more than the timeout
\* has elapsed since the caller entered.
C30_TimeoutStep ==
  \A c \in Callers :
     (Waiting(c) /\ ~Waiting(c)' /\ TimedOut(c)')
       => now - c_start_ts[c] > Timeout

\* C30: a caller with a finite timeout does not wait forever on the
\* inference lock or the memory gate: it leaves the wait, by going on towards
\* the body or by raising TimeoutError, and raises only after the timeout.
\* (Calls entered at any time from which the timeout passes within the
\* time followed, MaxLiveTime.)
C30_WaitsEnd ==
  /\ [][C30_TimeoutStep]_vars
  /\ \A c \in Callers :
       (Waiting(c) /\ c_start_ts[c] + Timeout < MaxLiveTime) ~> ~Waiting(c)

\* A caller has left on a lock timeout while the other, holding the
\* inference lock, is still in the body after more than the timeout.
C30_Witness ==
  \E c1, c2 \in Callers :
     /\ cpc[c1] = "body" /\ c_inference_acquired[c1]
     /\ cpc[c2] = "idle" /\ c_exc[c2] = "lock_timeout"
     /\ now - c_start_ts[c1] > Timeout

(***************************************************************************)
(* Properties of the exits and the engine loads of the ModelManager.       *)
(***************************************************************************)
\* Caller c runs the finally clause after the body returned or raised.
ExitsAfterBody(c) ==
  /\ cpc[c] = "release_slot"
  /\ c_exc[c] \in {"ok", "body_error"}
  /\ cpc'[c] = "release_lock"

\* C31: every exit of an inference_context after its body, on any device
\* and backend, sets the last-used timestamp to the time of the exit.
C31_ExitRefreshesLastUsed ==
  [][\A c \in Callers : ExitsAfterBody(c) => last_used_ts' = now]_vars

\* The callers inside _load_impl, between the constructor and its return.
Constructing == {c \in Callers : cpc[c] = "load_finish"}

\* C32, the steps: an engine is built only while the handle is unset, by
\* the one thread that holds _lock, and becomes the handle.
C32_LoadStep ==
  loads' # loads =>
    /\ model = 0
    /\ loads' = loads + 1
    /\ model' = loads'
    /\ \E c \in Callers : Constructing = {c} /\ state_lock = c /\ c_model'[c] = model'

\* C32: the constructor runs in at most one thread at a time, under _lock;
\* as long as no unload has happened (one engine built and still the
\* handle) every caller that got an engine from get_model() got that one,
\* and no caller ever holds an engine that was not built.
C32_SingleConstruction ==
  /\ [][C32_LoadStep]_vars
  /\ [](/\ Cardinality(Constructing) <= 1
        /\ \A c \in Constructing : state_lock = c /\ model = 0
        /\ \A c \in Callers : c_model[c] <= loads
        /\ (loads = 1 /\ model = 1) => \A c \in Callers : c_model[c] \in {0, 1}
        /\ \A c \in Callers :
             cpc[c] \in {"check_gate", "gate", "gate_deadline", "body"} =>
               c_model[c] # 0)

\* Both callers raced for the unset handle and hold the one engine built.
C32_Witness ==
  /\ loads = 1 /\ model = 1
  /\ \A c \in Callers : c_model[c] = 1
  /\ \A c \in Callers : cpc[c] = "body"

(***************************************************************************)
(* Ownership of the jobs by the workers.                                   *)
(***************************************************************************)
\* The workers that hold job j between its dequeue and the end of finally.
Holders(j) == {w \in Workers : wjob[w] = j}

\* C33, the steps: the record of a job and its Pipeline.run outcome change
\* only in a step of the one worker that holds the job, and the pipeline
\* outcome is set once.
C33_OwnerStep ==
  \A j \in DOMAIN jobs :
     /\ jobs'[j] # jobs[j] => Cardinality(Holders(j)) = 1
     /\ run_outcome'[j] # run_outcome[j]
          => /\ run_outcome[j] = "none"
             /\ \E w \in Holders(j) : wpc[w] = "run" /\ wpc'[w] # "run"

\* At most once: each job is dequeued at most once and only if it was
\* accepted, by one worker, which alone changes it and runs the pipeline on
\* it at most once; the jobs in status processing are never more than
\* max(1, max_workers).
ExclusiveOwnership ==
  /\ [][C33_OwnerStep]_vars
  /\ [](/\ \A i, k \in 1..Len(dequeued) : i # k => dequeued[i] # dequeued[k]
        /\ Range(dequeued) \subseteq Range(accepted)
        /\ \A j \in JobIds : Cardinality(Holders(j)) <= 1
        /\ \A j \in DOMAIN jobs :
             /\ Holders(j) # {} => j \in Range(dequeued)
             /\ jobs[j].status = "processing" => Holders(j) # {}
             /\ run_outcome[j] # "none" => j \in Range(dequeued)
        /\ Cardinality({j \in DOMAIN jobs : jobs[j].status = "processing"})
             <= NumWorkers(max_workers))

\* The thread of the worker that dequeued job j has ended with the job.
HolderEnded(j) == \E w \in Holders(j) : wpc[w] = "died"

\* Every worker thread has left its loop.
AllExited == \A w \in Workers : wpc[w] = "exited"

\* C33: each accepted job is removed from the queue by exactly one worker
\* and run through the pipeline exactly once, only that worker changes it,
\* and the jobs in status processing are never more than
\* max(1, max_workers).  Exactly once: at most once, and no job is done
\* with unrun, neither one whose worker thread has ended nor an accepted
\* one when all workers have left.
C33_RunExactlyOnce ==
  /\ ExclusiveOwnership
  /\ [](\A j \in DOMAIN jobs : HolderEnded(j) => run_outcome[j] # "none")
  /\ [](AllExited => Range(accepted) \subseteq Range(dequeued))

(***************************************************************************)
(* DocumentPipeline.run: the choice of the mode and the acquisitions       *)
(***************************************************************************)
BatchedPositions == {"batch_loop", "batch_predict", "done_batched"}

SinglePositions == {"single", "single_predict", "done_single"}

\* run's condition for _run_batched, on the configured batch_page_size
BatchedCase ==
  b_auto /\ b_known /\ b_total > b_size /\ b_range = << >>

\* ceil(p / b) for b >= 1
CeilDiv(p, b) == (p + b - 1) \div b

\* An inference_context is requested only outside every with block, one
\* request at a time.
C34_AcquireStep ==
  b_acq' # b_acq => ~b_held /\ b_acq' = b_acq + 1

C34_ModeStates ==
  /\ b_pc \in BatchedPositions => BatchedCase
  /\ b_pc \in SinglePositions => ~BatchedCase
  /\ b_held <=> b_pc \in {"batch_predict", "single_predict"}
  /\ b_pc = "done_single" => b_acq = 1
  /\ b_pc \in {"single", "single_predict"} => b_acq = (IF b_held THEN 1 ELSE 0)
  /\ b_pc \in BatchedPositions => b_acq = Len(b_ranges) + (IF b_held THEN 1 ELSE 0)

\* C34 as stated, the batch size being settings.batch_page_size throughout:
\* a finished batched run has made n acquisitions with
\* (n - 1) * B < P <= n * B, which is n = ceil(P / B).
C34_AcquisitionsByConfiguredSize ==
  /\ C34_ModeStates
  /\ b_pc = "done_batched" =>
       /\ (b_acq - 1) * b_size < b_total
       /\ b_total <= b_acq * b_size

\* C34 (amended): run takes the batched path exactly when auto batching is
\* on, the page count is known and above settings.batch_page_size, and
\* page_ranges is None; a batched run that finishes has made
\* ceil(P / max(1, batch_page_size)) acquisitions, every other run that
\* finishes exactly one, and no acquisition is requested while an earlier
\* one is still held.
C34_ModeAndAcquisitions ==
  /\ [][C34_AcquireStep]_vars
  /\ [](C34_ModeStates
        /\ (b_pc = "done_batched" =>
              b_acq = CeilDiv(b_total, Max(1, b_size))))

\* Seven pages in batches of three took three acquisitions, none held.
C34_Witness ==
  /\ b_pc = "done_batched"
  /\ b_total = 7
  /\ b_size = 3
  /\ b_acq = 3
  /\ ~b_held

\* C35: after a run that finished on a document whose results carry text,
\* full.md exists and holds the texts of the processed pages in order,
\* in either mode.
C35_CombinedMarkdown ==
  b_pc \in {"done_single", "done_batched"} => b_md = <<b_out>>

(***************************************************************************)
(* The locks of the ModelManager: who waits for whom                       *)
(***************************************************************************)
\* The caller has no step of its own in this state.
Blocked(c) == ~ENABLED CallerStep(c)

\* The model stops counting loads at MaxLoads: a caller that needs one more
\* load is at the edge of the model, not waiting for a thread.
AtLoadBound(c) == cpc[c] = "get_model" /\ model = 0 /\ loads = MaxLoads

\* Polling for the inference lock: the non-blocking acquire or the deadline
\* test and sleep that follow a failed one.
WaitsForInferenceLock(c) == cpc[c] \in {"lock_wait", "lock_deadline"}

\* Waiting for _lock, which a thread inside get_model holds.
WaitsForStateLock(c) ==
  /\ cpc[c] \in {"get_model", "gate", "release_slot", "slot_wait", "slot_exit"}
  /\ state_lock \notin {0, c}

\* Polling for a GPU slot, at the gate of inference_context or in gpu_slot.
WaitsForSlot(c) ==
  cpc[c] \in {"gate", "gate_deadline", "slot_wait", "slot_deadline"}

\* C36: _lock is held only by a thread inside get_model, which never waits;
\* a thread polling for the inference lock or for a slot does not hold
\* _lock, and one polling for the inference lock does not hold that lock
\* and always has a step; the only threads without a step wait for _lock
\* (whose holder has one); a thread at the lock wait takes the lock as soon
\* as it is free, and a thread polling for a slot under _lock gets one as
\* soon as none is in flight (at the gate: with no memory pressure and the
\* largest free-memory reading).
C36_NoDeadlock ==
  /\ state_lock # 0 =>
       /\ cpc[state_lock] = "load_finish"
       /\ ~Blocked(state_lock)
  /\ \A c \in Callers :
       /\ WaitsForInferenceLock(c) =>
            state_lock # c /\ ~c_inference_acquired[c] /\ ~Blocked(c)
       /\ WaitsForSlot(c) => state_lock # c
       /\ cpc[c] = "lock_wait" /\ ~inference_lock => ENABLED LockAcquire(c)
       /\ inference_lock /\ WaitsForInferenceLock(c) =>
            \E h \in Callers \ {c} : c_inference_acquired[h]
       /\ cpc[c] # "idle" /\ Blocked(c) =>
            \/ WaitsForStateLock(c)
            \/ AtLoadBound(c)
       /\ cpc[c] = "slot_wait" /\ state_lock = 0 /\ busy_gpu_tasks = 0 =>
            \A mem \in GpuFreeReadings : ENABLED SlotAdmit(c, mem)
       /\ cpc[c] = "gate" /\ state_lock = 0 /\ busy_gpu_tasks = 0 =>
            ENABLED GateAdmit(c, FALSE, 260)

\* One caller polls for the inference lock while its holder is inside
\* get_model with _lock taken, building the engine.
C36_Witness ==
  \E c1, c2 \in Callers :
    /\ cpc[c1] = "lock_deadline"
    /\ c_inference_acquired[c2]
    /\ state_lock = c2

(***************************************************************************)
(* The status file across auto publish                                     *)
(***************************************************************************)
\* C37: every persisted status snapshot has finished_at set exactly when
\* its status is succeeded or failed.
C37_FinishedAtIffFinal ==
  \A j \in DOMAIN statusFile :
    statusFile[j].finished_at # NoTime
      <=> statusFile[j].status \in {"succeeded", "failed"}

\* C38: once a job whose auto publish succeeded has finished, its status
\* file still carries the publish info.
C38_PublishInfoKept ==
  \A j \in DOMAIN jobs :
    (auto_publish /\ publish_outcome[j] = "published"
       /\ jobs[j].finished_at # NoTime /\ j \in DOMAIN statusFile)
      => statusFile[j].published

(***************************************************************************)
(* GET /download/{token}: download_by_token.  The handlers of the publish  *)
(* router are coroutines without an await, so the event loop runs each of  *)
(* them to its end before it starts another.                               *)
(***************************************************************************)
\* What the token presented points to: its backend, its file_path and the
\* file behind it, or the outcome of sign_for_token.
Targets == {"oss_signed", "oss_unsigned", "no_path", "outside", "missing", "present"}

\* The response once consume() has returned the token.
download_response(target) ==
  CASE target = "oss_signed" -> 307
    [] target = "oss_unsigned" -> 500
    [] target = "no_path" -> 404
    [] target = "outside" -> 403
    [] target = "missing" -> 404
    [] target = "present" -> 200

\* consume() would find the token, unexpired and with uses left.
Live(tok) ==
  tok \in DOMAIN t_data /\ consume_outcome(t_data[tok], now) = "ok"

\* download_by_token has got its token from consume() and has not answered.
InHandler == d_last.token # 0 /\ d_last.status = 0

\* The event loop is inside no handler of the publish router.
LoopFree == ~InHandler /\ \A th \in Consumers : tpc[th] = "idle"

DownloadFrame == <<now, qvars, mvars, xvars, pvars, lvars, hvars>>

\* Variant that looks the token up without taking a use.
DownloadPeek(tok) ==
  /\ tok \in Tokens
  /\ LoopFree
  /\ token_lock_free(t_lock)
  /\ IF tok \notin DOMAIN t_data
       THEN d_last' = [token |-> tok, live |-> FALSE, before |-> 0,
                       after |-> 0, status |-> 404]
       ELSE LET t == t_data[tok]
            IN IF consume_outcome(t, now) = "ok"
                 THEN d_last' = [token |-> tok, live |-> TRUE,
                                 before |-> t.remain, after |-> t.remain,
                                 status |-> 0]
                 ELSE d_last' = [token |-> tok, live |-> FALSE,
                                 before |-> t.remain, after |-> 0,
                                 status |-> 404]
  /\ UNCHANGED <<t_data, t_file, t_lock, tpc, t_arg, t_local, t_issued,
                 t_results, t_ttl, t_restarts, DownloadFrame>>

\* download_by_token(request, token): t = token_mgr.consume(token);
\* if not t: raise HTTPException(404)
DownloadConsume(tok) ==
  /\ tok \in Tokens
  /\ LoopFree
  /\ token_lock_free(t_lock)
  /\ IF tok \notin DOMAIN t_data
       THEN /\ d_last' = [token |-> tok, live |-> FALSE, before |-> 0,
                          after |-> 0, status |-> 404]
            /\ UNCHANGED <<t_data, t_file>>
       ELSE LET t == t_data[tok]
                used == [t EXCEPT !.remain = t.remain - 1]
            IN IF consume_outcome(t, now) = "ok"
                 THEN /\ t_data' = TableSet(t_data, tok, used)
                      /\ t_file' = token_save(TableSet(t_data, tok, used))
                      /\ d_last' = [token |-> tok, live |-> TRUE,
                                    before |-> t.remain,
                                    after |-> used.remain,
                                    status |-> 0]
                 ELSE /\ t_data' = TablePop(t_data, tok)
                      /\ t_file' = token_save(TablePop(t_data, tok))
                      /\ d_last' = [token |-> tok, live |-> FALSE,
                                    before |-> t.remain, after |-> 0,
                                    status |-> 404]
  /\ UNCHANGED <<t_lock, tpc, t_arg, t_local, t_issued, t_results, t_ttl,
                 t_restarts, DownloadFrame>>

\* the rest of download_by_token: the redirect or the signing error for
\* oss, else the file_path test, validate_path_in_storage, the existence
\* test and the file
DownloadRespond(target) ==
  /\ InHandler
  /\ target \in Targets
  /\ d_last' = [d_last EXCEPT !.status = download_response(target)]
  /\ UNCHANGED <<tvars, DownloadFrame>>

DownloadInit ==
  /\ CoreIdle
  /\ ExtraFresh

DownloadNext ==
  \/ Tick
  \/ \E tok \in Tokens, n \in 1..MaxDownloads, ttl \in 0..MaxTtl :
       LoopFree /\ CreateToken(1, tok, n, ttl)
  \/ CreateInsert(1)
  \/ \E tok \in Tokens : DownloadConsume(tok)
  \/ \E target \in Targets : DownloadRespond(target)

DownloadSpec == DownloadInit /\ [][DownloadNext]_vars

\* The responses of download_by_token.
Responses == {307, 500, 404, 403, 200}

\* A request that presents a live token is past consume() with the token's
\* stored uses as they were before it on record, and one with any other
\* token is answered 404 with the token gone from the table; the rest of
\* the handler picks the response and leaves the token table and the store
\* file alone.
C39_RequestStep ==
  /\ (~InHandler /\ d_last' # d_last) =>
        IF Live(d_last'.token)
          THEN /\ d_last'.live /\ d_last'.status = 0
               /\ d_last'.before = t_data[d_last'.token].remain
          ELSE /\ ~d_last'.live /\ d_last'.status = 404
               /\ d_last'.token \notin DOMAIN t_data'
  /\ (InHandler /\ d_last' # d_last) =>
        /\ d_last'.status \in Responses
        /\ d_last' = [d_last EXCEPT !.status = d_last'.status]
        /\ UNCHANGED <<t_data, t_file>>

\* C39: every download request with a live token lowers the remaining uses
\* of that token by exactly one before the handler looks at the backend,
\* the path or the file: from the return of consume() on, through every
\* response (redirect, signing error, path or existence error, file), the
\* token is stored, in memory and in the store file, with one use less.
C39_ConsumeBeforeValidate ==
  /\ [][C39_RequestStep]_vars
  /\ [](d_last.live =>
          /\ d_last.after = d_last.before - 1
          /\ d_last.token \in DOMAIN t_data
          /\ t_data[d_last.token].remain = d_last.after
          /\ token_load(t_file) = t_data)

\* A request with a live token was refused for its path, and one use is gone.
C39_Witness ==
  /\ d_last.live
  /\ d_last.status = 403
  /\ d_last.before = MaxDownloads
  /\ d_last.after = MaxDownloads - 1
  /\ d_last.token \in DOMAIN t_data
  /\ t_data[d_last.token].remain = MaxDownloads - 1

(***************************************************************************)
(* The RateLimiter beside one that never removes a bucket                  *)
(***************************************************************************)
\* C40: at every moment the next allow() call for any key gets the same
\* answer from the limiter that removes buckets untouched past the TTL as
\* from the same limiter, given the same calls at the same times, that keeps
\* every bucket.
C40_SweepUnobservable ==
  \A k \in Keys, rnd \in Roundings :
    allow_result(r_buckets, r_last_cleanup, k, r_mono, r_cfg, rnd)
      = kept_result(r_kept, k, r_mono, r_cfg, rnd)

====
